---- MODULE Spec2Model ----
(***************************************************************************)
(* Model of the CNPJ export pipeline (mbezerra/cnpj-processor): the filter *)
(* compilers, the query builders, the row post-processors, the batch       *)
(* pagers and the CSV sink of the four processor variants                  *)
(*   CNPJProcessor                 (src/cnpj_processor/cnpj_processor.py)   *)
(*   CNPJProcessorOptimized        (.../cnpj_processor_optimized.py)        *)
(*   CNPJProcessorUltraOptimized   (.../cnpj_processor_ultra_optimized.py)  *)
(*   CNPJProcessorStreaming        (.../cnpj_processor_streaming.py)        *)
(* and of the multi-file driver scripts/main_ultra_optimized.py.           *)
(*                                                                         *)
(* Text values (SQL strings, Python str) are sequences of one-character    *)
(* strings; a SQL NULL / Python None is the value NULL.  The establishment *)
(* table is a fixed snapshot: a sequence of rows in storage order.         *)
(* Columns that every variant only copies from the table to the CSV        *)
(* (address, dates of status, ...) are left out of the rows.               *)
(***************************************************************************)
EXTENDS Integers, Sequences, FiniteSets, TLC

VARIABLES
    variant,        \* which entry point drives the run
    table,          \* snapshot of cnpj_estabelecimentos (sequence of rows)
    filters,        \* the filter object: a function from present keys to values
    limit,          \* requested limit (argument `limit`)
    batch_size,     \* self.batch_size
    pc,             \* "START", "RUNNING", "DONE" or "FAILED"
    total_records,  \* target of the batch loop
    processed,      \* local `processed`
    batch_num,      \* local `batch_num`
    last_cnpj,      \* local `last_cnpj` (cursor), NULL for None
    output,         \* content of the output CSV: sequence of lines, or NoFile
    batches,        \* the frames handed to the CSV sink, in emission order
    last_query,     \* the last query sent to the database
    n_queries,      \* number of queries sent to the database in this run
    cursor_rows,    \* streaming: rows not yet fetched from the open cursor
    batch_data,     \* streaming: local `batch_data`
    writer,         \* streaming: TRUE once the DictWriter exists
    est_roots,      \* counted run: number of root identifiers matching the filters
    est_per,        \* counted run: matching establishments per root identifier
    written,        \* counted run: data rows written so far in this run
    last_rank,      \* counted run: rank of the cursor row in the ordered result
    file_part,      \* counted run: current file part of main_ultra_optimized
    total_files,    \* counted run: number of file parts
    args_limit,     \* counted run: --limit of main_ultra_optimized
    adj_time,       \* adjust_batch_size: argument batch_time (seconds)
    adj_current,    \* adjust_batch_size: argument current_batch_size
    adj_result,     \* adjust_batch_size: returned size (0 before the call)
    adj_done,       \* adjust_batch_size: TRUE once the call has returned
    call_fn,        \* row function under call: which function
    call_in,        \* row function under call: its argument
    call_out,       \* row function under call: its results, one per variant
    call_done       \* row function under call: TRUE once it has returned

pageVars  == <<variant, table, filters, limit, batch_size, pc, total_records,
               processed, batch_num, last_cnpj, output, batches, last_query,
               n_queries, cursor_rows, batch_data, writer>>
countVars == <<est_roots, est_per, written, last_rank, file_part, total_files,
               args_limit>>
adjVars   == <<adj_time, adj_current, adj_result, adj_done>>
callVars  == <<call_fn, call_in, call_out, call_done>>
vars      == <<pageVars, countVars, adjVars, callVars>>

----------------------------------------------------------------------------
(* Bounds of the model *)

MaxRows == 3            \* largest number of rows of a table snapshot
MaxLimit == 3           \* largest requested limit of a paged run over a snapshot
MaxFilterKeys == 2      \* largest number of keys of a generated filter object
MaxAdjTime == 20        \* largest batch duration (seconds) given to adjust_batch_size

----------------------------------------------------------------------------
(* Text helpers *)

NULL == <<"NULL">>
NoFile == <<[line |-> "absent"]>>
HEADER == "header"

DigitChars == <<"0", "1", "2", "3", "4", "5", "6", "7", "8", "9">>

Min(a, b) == IF a < b THEN a ELSE b
Max(a, b) == IF a > b THEN a ELSE b

Ord(c) == CHOOSE i \in 1..Len(DigitChars) : DigitChars[i] = c

RECURSIVE StrLess(_, _)
StrLess(a, b) ==
    IF a = <<>> THEN b # <<>>
    ELSE IF b = <<>> THEN FALSE
    ELSE IF Head(a) # Head(b) THEN Ord(Head(a)) < Ord(Head(b))
    ELSE StrLess(Tail(a), Tail(b))

RECURSIVE LPAD(_, _)
LPAD(s, w) ==
    IF Len(s) >= w THEN SubSeq(s, 1, w) ELSE LPAD(<<"0">> \o s, w)

PyStr(v) == IF v = NULL THEN <<"N", "o", "n", "e">> ELSE v

----------------------------------------------------------------------------
(* The establishment table.  A row holds the columns the processors read   *)
(* or test: the three parts of the registry number as the loader stores    *)
(* them (zero-filled text, scripts/cnpj_estabelecimentos.py:96-101), the   *)
(* filterable columns, the first phone pair and the email.                 *)

Str2(a, b) == <<a, b>>
SP == Str2("S", "P")
BA == Str2("B", "A")

EmailOk  == <<"a", "@", "b", ".", "c", "o">>
EmailBad == <<"a", "b">>
TelCel   == <<"9", "1", "2", "3", "4", "5", "6", "7", "8">>
TelFixo  == <<"3", "2", "3", "4", "5", "6", "7", "8">>
TelOld   == <<"8", "7", "6", "5", "4", "3", "2", "1">>
DDD11    == <<"1", "1">>

Root(n) == LPAD(<<DigitChars[n + 1]>>, 8)
Ordem(n) == LPAD(<<DigitChars[n + 1]>>, 4)
DV(n) == LPAD(<<DigitChars[n + 1]>>, 2)

Est(r, o, uf, sit, mun, mail, tel) ==
    [cnpj_part1 |-> Root(r), cnpj_part2 |-> Ordem(o), cnpj_part3 |-> DV(o),
     uf |-> uf, situacao_cadastral |-> sit, codigo_municipio |-> mun,
     correio_eletronico |-> mail, ddd1 |-> DDD11, telefone1 |-> tel,
     cnae |-> IF r = 3 THEN <<"9", "9">> ELSE <<"4", "7">>,
     data_inicio_atividade |-> 20200101 - r,
     codigo_pais |-> IF r = 2 THEN 249 ELSE 0,
     opcao_mei |-> NULL, capital_social |-> 20000 * o]

Pool ==
    << Est(1, 1, SP, 2, 3455, EmailOk,  TelCel),
       Est(1, 2, SP, 2, 3455, NULL,     TelFixo),
       Est(2, 1, BA, 4, 7107, <<>>,     NULL),
       Est(2, 2, SP, 8, 3455, EmailBad, TelOld),
       Est(3, 1, SP, 2, 7107, EmailOk,  <<>>) >>

(* str(n) of a non-negative integer *)
RECURSIVE IntStr(_)
IntStr(n) ==
    IF n < 10 THEN <<DigitChars[n + 1]>>
    ELSE IntStr(n \div 10) \o <<DigitChars[(n % 10) + 1]>>

(* The reference tables cnpj_cnaes, cnpj_municipios and cnpj_paises, as    *)
(* the caches hold them: {str(row[0]): row[1]}.  Industry code 99 and      *)
(* country code 0 have no entry.                                           *)
cnpj_cnaes == <<"4", "7">> :> "COMERCIO VAREJISTA"

cnpj_municipios ==
    (IntStr(3455) :> "MUNICIPIO 3455") @@ (IntStr(7107) :> "MUNICIPIO 7107")

cnpj_paises ==
    (IntStr(105) :> "BRASIL") @@ (IntStr(249) :> "ESTADOS UNIDOS")

RECURSIVE Pick(_, _)
Pick(S, i) ==
    IF i > Len(Pool) THEN <<>>
    ELSE (IF i \in S THEN <<Pool[i]>> ELSE <<>>) \o Pick(S, i + 1)

Tables ==
    { Pick(S, 1) : S \in { T \in SUBSET (1..Len(Pool)) : Cardinality(T) <= MaxRows } }

----------------------------------------------------------------------------
(* Filter objects (src/filters/filters.py:266-317): a function from the    *)
(* keys that are present to their values.                                  *)

FilterKeys ==
    {"uf", "situacao_cadastral", "codigo_municipio", "com_email",
     "com_telefone", "tipo_telefone"}

FilterValues(k) ==
    CASE k = "uf" -> {SP}
      [] k = "situacao_cadastral" -> {"ativos", "inaptos", "inativos", "baixados"}
      [] k = "codigo_municipio" -> {3455}
      [] k = "com_email" -> BOOLEAN
      [] k = "com_telefone" -> BOOLEAN
      [] k = "tipo_telefone" -> {"fixo", "celular", "ambos"}

NoFilters == [k \in {} |-> TRUE]

RECURSIVE FiltersOver(_)
FiltersOver(K) ==
    IF K = {} THEN {NoFilters}
    ELSE LET k == CHOOSE x \in K : TRUE
         IN  { (k :> v) @@ f : v \in FilterValues(k), f \in FiltersOver(K \ {k}) }

FilterObjects ==
    UNION { FiltersOver(K) :
            K \in { S \in SUBSET FilterKeys : Cardinality(S) <= MaxFilterKeys } }

Has(f, k) == k \in DOMAIN f

----------------------------------------------------------------------------
(* SQL predicates.  A WHERE clause is a sequence of conditions, ANDed;     *)
(* "= c" on the status column is kept as IN {c}.                           *)

Cond(col, op, val) == [col |-> col, op |-> op, val |-> val]

IsEmpty(v) == v = NULL \/ v = <<>>

Eval(c, row) ==
    CASE c.op = "=" -> row[c.col] = c.val
      [] c.op = "IN" -> row[c.col] \in c.val
      [] c.op = "NOT_EMPTY" -> ~IsEmpty(row[c.col])
      [] c.op = "EMPTY" -> IsEmpty(row[c.col])
      [] c.op = ">" -> row[c.col] > c.val
      [] c.op = ">=" -> row[c.col] >= c.val
      [] c.op = "<=" -> row[c.col] <= c.val
      [] c.op = "STR>" -> StrLess(c.val, row[c.col])
      [] c.op = "NOT_S" -> row[c.col] = NULL \/ row[c.col] # <<"S">>

Satisfies(where, row) == \A i \in 1..Len(where) : Eval(where[i], row)

(* CNPJProcessor.apply_filters *)
apply_filters(f) ==
       (IF Has(f, "cnae_codes") THEN <<Cond("cnae", "IN", f["cnae_codes"])>> ELSE <<>>)
    \o (IF Has(f, "uf") THEN <<Cond("uf", "=", f["uf"])>> ELSE <<>>)
    \o (IF Has(f, "codigo_municipio")
        THEN <<Cond("codigo_municipio", "=", f["codigo_municipio"])>> ELSE <<>>)
    \o (IF Has(f, "situacao_cadastral")
        THEN (IF f["situacao_cadastral"] = "ativos"
              THEN <<Cond("situacao_cadastral", "IN", {2})>>
              ELSE IF f["situacao_cadastral"] = "inaptos"
              THEN <<Cond("situacao_cadastral", "IN", {4})>>
              ELSE IF f["situacao_cadastral"] = "inativos"
              THEN <<Cond("situacao_cadastral", "IN", {1, 3, 8})>>
              ELSE <<>>)
        ELSE <<>>)
    \o (IF Has(f, "data_inicio_atividade")
        THEN (IF Has(f["data_inicio_atividade"], "inicio")
              THEN <<Cond("data_inicio_atividade", ">=", f["data_inicio_atividade"]["inicio"])>>
              ELSE <<>>)
          \o (IF Has(f["data_inicio_atividade"], "fim")
              THEN <<Cond("data_inicio_atividade", "<=", f["data_inicio_atividade"]["fim"])>>
              ELSE <<>>)
        ELSE <<>>)
    \o (IF Has(f, "com_email")
        THEN (IF f["com_email"] THEN <<Cond("correio_eletronico", "NOT_EMPTY", NULL)>>
              ELSE <<Cond("correio_eletronico", "EMPTY", NULL)>>)
        ELSE <<>>)
    \o (IF Has(f, "com_telefone")
        THEN (IF f["com_telefone"] THEN <<Cond("telefone1", "NOT_EMPTY", NULL)>>
              ELSE <<Cond("telefone1", "EMPTY", NULL)>>)
        ELSE <<>>)
    \o (IF Has(f, "opcao_tributaria")
        THEN (IF f["opcao_tributaria"] = "mei" THEN <<Cond("opcao_mei", "=", <<"S">>)>>
              ELSE IF f["opcao_tributaria"] = "sem_mei"
              THEN <<Cond("opcao_mei", "NOT_S", NULL)>>
              ELSE <<>>)
        ELSE <<>>)
    \o (IF Has(f, "capital_social")
        THEN (IF f["capital_social"] = "10k" THEN <<Cond("capital_social", ">", 10000)>>
              ELSE IF f["capital_social"] = "50k"
              THEN <<Cond("capital_social", ">", 50000)>>
              ELSE IF f["capital_social"] = "100k"
              THEN <<Cond("capital_social", ">", 100000)>>
              ELSE <<>>)
        ELSE <<>>)

(* CNPJProcessorOptimized.apply_filters_optimized *)
apply_filters_optimized(f) ==
       (IF Has(f, "uf") THEN <<Cond("uf", "=", f["uf"])>> ELSE <<>>)
    \o (IF Has(f, "situacao_cadastral")
        THEN (IF f["situacao_cadastral"] = "ativos"
              THEN <<Cond("situacao_cadastral", "IN", {2})>>
              ELSE IF f["situacao_cadastral"] = "inaptos"
              THEN <<Cond("situacao_cadastral", "IN", {4})>>
              ELSE IF f["situacao_cadastral"] = "inativos"
              THEN <<Cond("situacao_cadastral", "IN", {1, 3, 8})>>
              ELSE <<>>)
        ELSE <<>>)
    \o (IF Has(f, "codigo_municipio")
        THEN <<Cond("codigo_municipio", "=", f["codigo_municipio"])>> ELSE <<>>)
    \o (IF Has(f, "cnae_codes") THEN <<Cond("cnae", "IN", f["cnae_codes"])>> ELSE <<>>)
    \o (IF Has(f, "data_inicio_atividade")
        THEN (IF Has(f["data_inicio_atividade"], "inicio")
              THEN <<Cond("data_inicio_atividade", ">=", f["data_inicio_atividade"]["inicio"])>>
              ELSE <<>>)
          \o (IF Has(f["data_inicio_atividade"], "fim")
              THEN <<Cond("data_inicio_atividade", "<=", f["data_inicio_atividade"]["fim"])>>
              ELSE <<>>)
        ELSE <<>>)
    \o (IF Has(f, "com_email")
        THEN (IF f["com_email"] THEN <<Cond("correio_eletronico", "NOT_EMPTY", NULL)>>
              ELSE <<Cond("correio_eletronico", "EMPTY", NULL)>>)
        ELSE <<>>)
    \o (IF Has(f, "com_telefone")
        THEN (IF f["com_telefone"] THEN <<Cond("telefone1", "NOT_EMPTY", NULL)>>
              ELSE <<Cond("telefone1", "EMPTY", NULL)>>)
        ELSE <<>>)
    \o (IF Has(f, "opcao_tributaria")
        THEN (IF f["opcao_tributaria"] = "mei" THEN <<Cond("opcao_mei", "=", <<"S">>)>>
              ELSE IF f["opcao_tributaria"] = "sem_mei"
              THEN <<Cond("opcao_mei", "NOT_S", NULL)>>
              ELSE <<>>)
        ELSE <<>>)
    \o (IF Has(f, "capital_social")
        THEN (IF f["capital_social"] = "10k" THEN <<Cond("capital_social", ">", 10000)>>
              ELSE IF f["capital_social"] = "50k"
              THEN <<Cond("capital_social", ">", 50000)>>
              ELSE IF f["capital_social"] = "100k"
              THEN <<Cond("capital_social", ">", 100000)>>
              ELSE <<>>)
        ELSE <<>>)

(* CNPJProcessorUltraOptimized.apply_filters_minimal *)
apply_filters_minimal(f) ==
       (IF Has(f, "uf") THEN <<Cond("uf", "=", f["uf"])>> ELSE <<>>)
    \o (IF Has(f, "situacao_cadastral")
        THEN (IF f["situacao_cadastral"] = "ativos"
              THEN <<Cond("situacao_cadastral", "IN", {2})>>
              ELSE IF f["situacao_cadastral"] = "inaptos"
              THEN <<Cond("situacao_cadastral", "IN", {4})>>
              ELSE IF f["situacao_cadastral"] = "inativos"
              THEN <<Cond("situacao_cadastral", "IN", {1, 3, 8})>>
              ELSE <<>>)
        ELSE <<>>)
    \o (IF Has(f, "codigo_municipio")
        THEN <<Cond("codigo_municipio", "=", f["codigo_municipio"])>> ELSE <<>>)
    \o (IF Has(f, "cnae_codes") THEN <<Cond("cnae", "IN", f["cnae_codes"])>> ELSE <<>>)

(* build_simple_query with status 8 left out of the inactive bucket *)
build_simple_query_where_no_suspensa(f) ==
    IF DOMAIN f = {} THEN <<>>
    ELSE   (IF Has(f, "uf") THEN <<Cond("uf", "=", f["uf"])>> ELSE <<>>)
        \o (IF Has(f, "situacao_cadastral")
            THEN (IF f["situacao_cadastral"] = "ativos"
                  THEN <<Cond("situacao_cadastral", "IN", {2})>>
                  ELSE IF f["situacao_cadastral"] = "inaptos"
                  THEN <<Cond("situacao_cadastral", "IN", {4})>>
                  ELSE IF f["situacao_cadastral"] = "inativos"
                  THEN <<Cond("situacao_cadastral", "IN", {1, 3})>>
                  ELSE <<>>)
            ELSE <<>>)
        \o (IF Has(f, "codigo_municipio")
            THEN <<Cond("codigo_municipio", "=", f["codigo_municipio"])>> ELSE <<>>)
        \o (IF Has(f, "cnae_codes") THEN <<Cond("cnae", "IN", f["cnae_codes"])>> ELSE <<>>)

(* The WHERE part of CNPJProcessorStreaming.build_simple_query *)
build_simple_query_where(f) ==
    IF DOMAIN f = {} THEN <<>>
    ELSE   (IF Has(f, "uf") THEN <<Cond("uf", "=", f["uf"])>> ELSE <<>>)
        \o (IF Has(f, "situacao_cadastral")
            THEN (IF f["situacao_cadastral"] = "ativos"
                  THEN <<Cond("situacao_cadastral", "IN", {2})>>
                  ELSE IF f["situacao_cadastral"] = "inaptos"
                  THEN <<Cond("situacao_cadastral", "IN", {4})>>
                  ELSE IF f["situacao_cadastral"] = "inativos"
                  THEN <<Cond("situacao_cadastral", "IN", {1, 3, 8})>>
                  ELSE <<>>)
            ELSE <<>>)
        \o (IF Has(f, "codigo_municipio")
            THEN <<Cond("codigo_municipio", "=", f["codigo_municipio"])>> ELSE <<>>)
        \o (IF Has(f, "cnae_codes") THEN <<Cond("cnae", "IN", f["cnae_codes"])>> ELSE <<>>)


----------------------------------------------------------------------------
(* Queries.  A query is its WHERE conditions, its ORDER BY, its LIMIT      *)
(* (0 when the statement has no LIMIT clause) and its OFFSET.  Every       *)
(* establishment has its company row, so the joins keep one line per       *)
(* establishment.                                                          *)

max_limit == 200000

Query(where, order, lim, off) ==
    [where |-> where, order |-> order, limit |-> lim, offset |-> off]

NoQuery == Query(<<>>, "NONE", 0, 0)

(* CNPJProcessor.build_query: no ORDER BY *)
build_query(lim, f) ==
    Query(IF DOMAIN f # {} THEN apply_filters(f) ELSE <<>>,
          "UNORDERED",
          IF lim > 0 THEN lim ELSE 0,
          0)

(* CNPJProcessorOptimized.build_optimized_query *)
build_optimized_query(lim, off, f) ==
    Query(IF DOMAIN f # {} THEN apply_filters_optimized(f) ELSE <<>>,
          "PART1_PART2_PART3",
          IF lim > 0 THEN lim ELSE 0,
          IF lim > 0 THEN off ELSE 0)

(* build_ultra_optimized_query with the cursor condition replacing the     *)
(* filter conditions instead of being appended to them                     *)
build_ultra_optimized_query_cursor_only(lim, off, f, last) ==
    LET actual_limit == IF lim <= 0 THEN max_limit ELSE Min(lim, max_limit)
    IN  Query(IF last # NULL /\ last # <<>>
              THEN <<Cond("cnpj_part1", "STR>", last)>>
              ELSE (IF DOMAIN f # {} THEN apply_filters_minimal(f) ELSE <<>>),
              "PART1",
              IF actual_limit > 0 THEN actual_limit ELSE 0,
              0)

(* CNPJProcessorUltraOptimized.build_ultra_optimized_query: `offset` is    *)
(* accepted and never used.                                                *)
build_ultra_optimized_query(lim, off, f, last) ==
    LET actual_limit == IF lim <= 0 THEN max_limit ELSE Min(lim, max_limit)
    IN  Query((IF DOMAIN f # {} THEN apply_filters_minimal(f) ELSE <<>>)
                \o (IF last # NULL /\ last # <<>>
                    THEN <<Cond("cnpj_part1", "STR>", last)>> ELSE <<>>),
              "PART1",
              IF actual_limit > 0 THEN actual_limit ELSE 0,
              0)

(* CNPJProcessorStreaming.build_simple_query *)
build_simple_query(lim, f) ==
    Query(build_simple_query_where(f),
          "PART1_DATE_DESC",
          IF lim > 0 THEN Min(lim, 200000) ELSE 200000,
          0)

(* CNPJProcessorUltraOptimized.get_optimized_order_by: the columns of the  *)
(* ORDER BY clause it returns for a filter object                          *)
get_optimized_order_by(filters_query) ==
    LET has_uf == "uf" \in DOMAIN filters_query
        has_situacao == "situacao_cadastral" \in DOMAIN filters_query
    IN  IF DOMAIN filters_query = {}
        THEN <<"data_inicio_atividade DESC", "cnpj_part1">>
        ELSE IF has_uf /\ has_situacao
        THEN <<"uf", "situacao_cadastral", "data_inicio_atividade DESC", "cnpj_part1">>
        ELSE IF has_uf
        THEN <<"uf", "data_inicio_atividade DESC", "cnpj_part1">>
        ELSE IF "cnae_codes" \in DOMAIN filters_query
        THEN <<"cnae", "data_inicio_atividade DESC", "cnpj_part1">>
        ELSE IF "codigo_municipio" \in DOMAIN filters_query
        THEN <<"codigo_municipio", "data_inicio_atividade DESC", "cnpj_part1">>
        ELSE <<"data_inicio_atividade DESC", "cnpj_part1">>

(* the columns of the ORDER BY clauses the query builders write *)
order_by_columns(order) ==
    CASE order = "PART1" -> <<"cnpj_part1">>
      [] order = "PART1_PART2_PART3" -> <<"cnpj_part1", "cnpj_part2", "cnpj_part3">>
      [] order = "PART1_DATE_DESC" -> <<"cnpj_part1", "data_inicio_atividade DESC">>
      [] OTHER -> <<>>

(* a sorts strictly before b under the ORDER BY *)
Precedes(order, a, b) ==
    CASE order = "UNORDERED" -> FALSE
      [] order = "PART1" -> StrLess(a.cnpj_part1, b.cnpj_part1)
      [] order = "PART1_PART2_PART3" ->
            \/ StrLess(a.cnpj_part1, b.cnpj_part1)
            \/ /\ a.cnpj_part1 = b.cnpj_part1
               /\ \/ StrLess(a.cnpj_part2, b.cnpj_part2)
                  \/ /\ a.cnpj_part2 = b.cnpj_part2
                     /\ StrLess(a.cnpj_part3, b.cnpj_part3)
      [] order = "PART1_DATE_DESC" ->
            \/ StrLess(a.cnpj_part1, b.cnpj_part1)
            \/ /\ a.cnpj_part1 = b.cnpj_part1
               /\ a.data_inicio_atividade > b.data_inicio_atividade

Perms(n) ==
    { p \in [1..n -> 1..n] : \A i, j \in 1..n : i # j => p[i] # p[j] }

(* Every order in which the database may return the rows: rows that tie    *)
(* under the ORDER BY come in any order.                                   *)
Orderings(rows, order) ==
    { [i \in 1..Len(rows) |-> rows[p[i]]] :
        p \in { q \in Perms(Len(rows)) :
                  \A i \in 1..(Len(rows) - 1) :
                      ~Precedes(order, rows[q[i + 1]], rows[q[i]]) } }

Slice(rows, off, lim) ==
    SubSeq(rows, off + 1, IF lim > 0 THEN Min(Len(rows), off + lim) ELSE Len(rows))

Matching(where, tbl) == SelectSeq(tbl, LAMBDA row : Satisfies(where, row))

(* The result sets the database may return for a query *)
Execute(q, tbl) ==
    { Slice(o, q.offset, q.limit) : o \in Orderings(Matching(q.where, tbl), q.order) }

(* SELECT COUNT( * ) with the given WHERE *)
Count(where, tbl) == Len(Matching(where, tbl))


----------------------------------------------------------------------------
(* Row post-processing *)

LowerCase ==
    {"a", "b", "c", "d", "e", "f", "g", "h", "i", "j", "k", "l", "m",
     "n", "o", "p", "q", "r", "s", "t", "u", "v", "w", "x", "y", "z"}
UpperCase ==
    {"A", "B", "C", "D", "E", "F", "G", "H", "I", "J", "K", "L", "M",
     "N", "O", "P", "Q", "R", "S", "T", "U", "V", "W", "X", "Y", "Z"}
DigitSet == {DigitChars[i] : i \in 1..Len(DigitChars)}
Letters == LowerCase \cup UpperCase
LocalChars == Letters \cup DigitSet \cup {".", "_", "%", "+", "-"}
DomainChars == Letters \cup DigitSet \cup {".", "-"}

AllIn(s, lo, hi, cs) == \A k \in lo..hi : s[k] \in cs

(* ^[a-zA-Z0-9._%+-]+@[a-zA-Z0-9.-]+\.[a-zA-Z]{2,} up to the end of s *)
FullMatch(s) ==
    \E i, j \in 1..Len(s) :
        /\ 1 < i /\ i + 1 < j /\ j + 2 <= Len(s)
        /\ s[i] = "@" /\ s[j] = "."
        /\ AllIn(s, 1, i - 1, LocalChars)
        /\ AllIn(s, i + 1, j - 1, DomainChars)
        /\ AllIn(s, j + 1, Len(s), Letters)

(* re.match(pattern, s) with the pattern ending in `$`, which also matches *)
(* just before one trailing newline                                        *)
email_pattern_match(s) ==
    \/ FullMatch(s)
    \/ /\ Len(s) > 0 /\ s[Len(s)] = "\n"
       /\ FullMatch(SubSeq(s, 1, Len(s) - 1))

IsBlank(s) == \A k \in 1..Len(s) : s[k] \in {" ", "\t", "\n"}

(* CNPJProcessor.is_valid_email *)
is_valid_email(email) ==
    IF email # NULL /\ ~IsBlank(email)
    THEN (IF email_pattern_match(email) THEN 1 ELSE 0)
    ELSE 0

(* CNPJProcessorOptimized.validate_email *)
validate_email(email) ==
    IF email = NULL \/ email = <<>> THEN <<>>
    ELSE IF email_pattern_match(email) THEN email ELSE <<>>

(* CNPJProcessorUltraOptimized.validate_email_ultra *)
validate_email_ultra(email) ==
    IF email = NULL \/ email = <<>> THEN <<>>
    ELSE IF email_pattern_match(email) THEN email ELSE <<>>

OnlyDigits(s) == SelectSeq(s, LAMBDA c : c \in DigitSet)

(* CNPJProcessor.is_celular *)
is_celular(telefone) ==
    IF telefone = NULL \/ telefone = <<>> THEN 0
    ELSE LET telefone_limpo == OnlyDigits(PyStr(telefone))
         IN  IF Len(telefone_limpo) >= 10 /\ telefone_limpo[3] \in {"6", "7", "8", "9"}
             THEN 1 ELSE 0

(* CNPJProcessorOptimized.detect_celular *)
detect_celular(telefone_col, ddd_col) ==
    LET telefone == PyStr(telefone_col)
        ddd == PyStr(ddd_col)
    IN  IF Len(telefone) = 9
        THEN (IF telefone[1] \in {"9"}
              THEN <<"(">> \o ddd \o <<")", " ">> \o telefone ELSE <<>>)
        ELSE <<>>

(* a classification by the leading digit alone, whatever the length *)
detect_celular_ultra_any_length(telefone_col, ddd_col) ==
    LET telefone == PyStr(telefone_col)
        ddd == PyStr(ddd_col)
    IN  IF Len(telefone) > 0 /\ telefone[1] \in {"9"}
        THEN <<"(">> \o ddd \o <<")", " ">> \o telefone
        ELSE <<>>

(* CNPJProcessorUltraOptimized.detect_celular_ultra *)
detect_celular_ultra(telefone_col, ddd_col) ==
    LET telefone == PyStr(telefone_col)
        ddd == PyStr(ddd_col)
    IN  IF Len(telefone) = 9 /\ telefone[1] \in {"9"}
        THEN <<"(">> \o ddd \o <<")", " ">> \o telefone
        ELSE <<>>

(* A cell of the situacao_cadastral column: an integer [int |-> n] or a    *)
(* text [str |-> s]                                                        *)
IsIntCell(v) == "int" \in DOMAIN v

(* a translation that renumbers before labelling, so that a second pass *)
(* changes what the first pass left                                      *)
replace_situacao_cell_renumber(v) ==
    IF IsIntCell(v)
    THEN (CASE v.int = 2 -> [str |-> "ATIVA"]
            [] v.int = 4 -> [str |-> "INAPTA"]
            [] v.int = 8 -> [str |-> "SUSPENSA"]
            [] v.int = 1 -> [int |-> 2]
            [] OTHER -> v)
    ELSE v

(* df['situacao_cadastral'].replace({2: 'ATIVA', 4: 'INAPTA', 8: 'SUSPENSA'}) *)
(* on one cell: only the integers 2, 4 and 8 are keys of the mapping          *)
replace_situacao_cell(v) ==
    IF IsIntCell(v)
    THEN (CASE v.int = 2 -> [str |-> "ATIVA"]
            [] v.int = 4 -> [str |-> "INAPTA"]
            [] v.int = 8 -> [str |-> "SUSPENSA"]
            [] OTHER -> v)
    ELSE v

(* the cell as to_csv writes it *)
csv_cell(v) == IF IsIntCell(v) THEN ToString(v.int) ELSE v.str

(* the status column of a query result, translated and written *)
replace_situacao(code) == csv_cell(replace_situacao_cell([int |-> code]))

(* cache.get(key, '') and Series.astype(str).map(cache), whose missing     *)
(* value is written as an empty cell; also the label column of a LEFT JOIN *)
dict_get(cache, key) == IF key \in DOMAIN cache THEN cache[key] ELSE ""

(* CNPJProcessorOptimized.get_lookup_data: the entries of a reference      *)
(* table whose key is among `keys`, as {str(row[0]): row[1]}               *)
get_lookup_data(ref, keys) == [k \in DOMAIN ref \cap keys |-> ref[k]]

(* Series.map(lookup) on a column that was not converted to text: a value  *)
(* finds its label only if the column itself holds text, the keys of the   *)
(* lookup being text                                                       *)
series_map(lookup, value, column_is_text) ==
    IF column_is_text /\ value \in DOMAIN lookup THEN lookup[value] ELSE ""

(* df['codigo_pais'].replace(0, 105) *)
replace_pais(code) == IF code = 0 THEN 105 ELSE code

(* the f"{a}{b}" if pd.notna(a) and pd.notna(b) else '' of process_data *)
concat_notna(a, b) == IF a # NULL /\ b # NULL THEN a \o b ELSE <<>>

(* the f"{a or ''}{b or ''}" of process_row_streaming *)
concat_or_empty(a, b) ==
    (IF a = NULL THEN <<>> ELSE a) \o (IF b = NULL THEN <<>> ELSE b)

(* CNPJProcessor.process_data, one row of the query result; id is the      *)
(* @row_number of the row                                                  *)
process_data_row(row, id) ==
    LET ddd_telefone_1 == concat_notna(row.ddd1, row.telefone1)
    IN  [id |-> id,
         cnpj |-> row.cnpj_part1 \o row.cnpj_part2 \o row.cnpj_part3,
         situacao_cadastral |-> ToString(row.situacao_cadastral),
         uf |-> row.uf,
         codigo_municipio |-> row.codigo_municipio,
         codigo_pais |-> replace_pais(row.codigo_pais),
         cnae_fiscal |-> dict_get(cnpj_cnaes, row.cnae),
         municipio |-> dict_get(cnpj_municipios, IntStr(row.codigo_municipio)),
         pais |-> dict_get(cnpj_paises,
                           IntStr(IF row.codigo_pais = 0 THEN 105 ELSE row.codigo_pais)),
         ddd_telefone_1 |-> ddd_telefone_1,
         telefone1_celular |-> is_celular(ddd_telefone_1),
         correio_eletronico |-> row.correio_eletronico,
         email |-> is_valid_email(row.correio_eletronico)]

(* the tipo_telefone post-filter of CNPJProcessor.process_data *)
tipo_telefone_filter(rows, f) ==
    IF DOMAIN f # {} /\ Has(f, "tipo_telefone")
    THEN (IF f["tipo_telefone"] = "fixo"
          THEN SelectSeq(rows, LAMBDA r : r.telefone1_celular = 0)
          ELSE IF f["tipo_telefone"] = "celular"
          THEN SelectSeq(rows, LAMBDA r : r.telefone1_celular = 1)
          ELSE rows)
    ELSE rows

process_data(rows, f) ==
    tipo_telefone_filter([i \in 1..Len(rows) |-> process_data_row(rows[i], i)], f)

(* CNPJProcessorOptimized.process_batch / process_dataframe /              *)
(* apply_data_processing                                                   *)
process_batch(rows) ==
    LET cnpj_list == {rows[i].cnpj_part1 : i \in 1..Len(rows)}
        cnae_lookup == get_lookup_data(cnpj_cnaes, cnpj_list)
        municipio_lookup ==
            get_lookup_data(cnpj_municipios,
                            {IntStr(rows[i].codigo_municipio) : i \in 1..Len(rows)})
        pais_lookup ==
            get_lookup_data(cnpj_paises,
                            {IntStr(rows[i].codigo_pais) : i \in 1..Len(rows)})
    IN
    [i \in 1..Len(rows) |->
        [id |-> i,
         cnae_fiscal |-> series_map(cnae_lookup, rows[i].cnae, TRUE),
         municipio |-> series_map(municipio_lookup, rows[i].codigo_municipio, FALSE),
         pais |-> series_map(pais_lookup, rows[i].codigo_pais, FALSE),
         cnpj |-> PyStr(rows[i].cnpj_part1) \o PyStr(rows[i].cnpj_part2)
                    \o PyStr(rows[i].cnpj_part3),
         situacao_cadastral |-> replace_situacao(rows[i].situacao_cadastral),
         uf |-> rows[i].uf,
         codigo_municipio |-> rows[i].codigo_municipio,
         codigo_pais |-> replace_pais(rows[i].codigo_pais),
         ddd_telefone_1 |-> rows[i].ddd1,
         telefone1_celular |-> detect_celular(rows[i].telefone1, rows[i].ddd1),
         email |-> validate_email(rows[i].correio_eletronico)]]

(* CNPJProcessorUltraOptimized.process_batch_ultra_optimized /             *)
(* process_dataframe_ultra / apply_data_processing_ultra; cnpj is the      *)
(* CONCAT(LPAD(..)) column of the query                                    *)
process_batch_ultra_optimized(rows) ==
    [i \in 1..Len(rows) |->
        [id |-> i,
         cnae_fiscal |-> dict_get(cnpj_cnaes, PyStr(rows[i].cnae)),
         municipio |-> dict_get(cnpj_municipios, IntStr(rows[i].codigo_municipio)),
         pais |-> dict_get(cnpj_paises, IntStr(replace_pais(rows[i].codigo_pais))),
         cnpj |-> LPAD(rows[i].cnpj_part1, 8) \o LPAD(rows[i].cnpj_part2, 4)
                    \o LPAD(rows[i].cnpj_part3, 2),
         situacao_cadastral |-> replace_situacao(rows[i].situacao_cadastral),
         uf |-> rows[i].uf,
         codigo_municipio |-> rows[i].codigo_municipio,
         codigo_pais |-> replace_pais(rows[i].codigo_pais),
         ddd_telefone_1 |-> rows[i].ddd1,
         telefone1_celular |-> detect_celular_ultra(rows[i].telefone1, rows[i].ddd1),
         email |-> validate_email_ultra(rows[i].correio_eletronico)]]

HasAt(s) == \E k \in 1..Len(s) : s[k] = "@"

(* 1 if row[21] and len(str(row[21])) == 9 and str(row[21])[0] == '9' else 0 *)
celular_flag_streaming(telefone) ==
    IF ~IsEmpty(telefone) /\ Len(telefone) = 9 /\ telefone[1] = "9" THEN 1 ELSE 0

(* 1 if row[26] and '@' in str(row[26]) else 0 *)
email_flag_streaming(email) ==
    IF ~IsEmpty(email) /\ HasAt(email) THEN 1 ELSE 0

(* CNPJProcessorStreaming.process_row_streaming *)
process_row_streaming(row, row_id) ==
    [id |-> row_id,
     cnae_fiscal |-> dict_get(cnpj_cnaes, PyStr(row.cnae)),
     municipio |-> dict_get(cnpj_municipios, IntStr(row.codigo_municipio)),
     pais |-> dict_get(cnpj_paises, IntStr(row.codigo_pais)),
     cnpj |-> PyStr(row.cnpj_part1) \o PyStr(row.cnpj_part2) \o PyStr(row.cnpj_part3),
     situacao_cadastral |-> ToString(row.situacao_cadastral),
     uf |-> row.uf,
     codigo_municipio |-> row.codigo_municipio,
     codigo_pais |-> replace_pais(row.codigo_pais),
     ddd_telefone_1 |-> concat_or_empty(row.ddd1, row.telefone1),
     telefone1_celular |-> celular_flag_streaming(row.telefone1),
     correio_eletronico |-> row.correio_eletronico,
     email |-> email_flag_streaming(row.correio_eletronico)]

----------------------------------------------------------------------------
(* CSV sink *)

HeaderLine == [line |-> HEADER]
StaleFile == <<HeaderLine, [line |-> "stale"]>>

(* to_csv with header=True on every call *)
to_csv_header_always(file, df, append) ==
    IF append
    THEN (IF file = NoFile THEN <<>> ELSE file) \o <<HeaderLine>> \o df
    ELSE <<HeaderLine>> \o df

(* df.to_csv(output_path, mode='a' if append else 'w', header=not append), *)
(* the body of save_to_csv_batch and of save_to_csv_ultra                  *)
to_csv(file, df, append) ==
    IF append
    THEN (IF file = NoFile THEN <<>> ELSE file) \o df
    ELSE <<HeaderLine>> \o df

save_to_csv_batch(file, df, append) == to_csv(file, df, append)

save_to_csv_ultra(file, df, append) == to_csv(file, df, append)

(* CNPJProcessor.save_to_csv *)
save_to_csv(file, df) == <<HeaderLine>> \o df


----------------------------------------------------------------------------
(* Adaptive batch size *)

min_batch_size == 5000
max_batch_size == 15000

(* int(current_batch_size * 1.5) *)
int_times_1_5(n) == (n * 3) \div 2

(* adjust_batch_size growing by 2x instead of 1.5x *)
adjust_batch_size_double(batch_time, current_batch_size) ==
    IF batch_time > 15
    THEN Max(min_batch_size, current_batch_size \div 2)
    ELSE IF batch_time < 5 /\ current_batch_size < max_batch_size
    THEN Min(max_batch_size, current_batch_size * 2)
    ELSE current_batch_size

(* CNPJProcessorUltraOptimized.adjust_batch_size *)
adjust_batch_size(batch_time, current_batch_size) ==
    IF batch_time > 15
    THEN Max(min_batch_size, current_batch_size \div 2)
    ELSE IF batch_time < 5 /\ current_batch_size < max_batch_size
    THEN Min(max_batch_size, int_times_1_5(current_batch_size))
    ELSE current_batch_size

(* process_batch_ultra_optimized: a partner lookup of more than 10 s       *)
(* halves self.batch_size                                                  *)
socios_slowdown(socios_time, size) ==
    IF socios_time > 10 THEN Max(min_batch_size, size \div 2) ELSE size

(* the batch size requested without regard to what is left to process *)
next_batch_size_uncapped(size, target, done) == size

(* current_batch_size = min(self.batch_size, limit - processed), the same  *)
(* expression in the three batch loops                                     *)
next_batch_size(size, target, done) == Min(size, target - done)

(* Observed durations (seconds) of a batch and, inside it, of its partner  *)
(* lookup                                                                  *)
BatchTimes == {3, 12, 20}
SociosTimes == {1, 11}

----------------------------------------------------------------------------
(* Runs over a table snapshot *)

Variants ==
    {"run", "run_optimized", "run_ultra_optimized",
     "run_ultra_optimized_with_offset", "run_streaming"}

BatchSizes == {1, 2, 10000}

IdleCount ==
    /\ est_roots = 0 /\ est_per = 0 /\ written = 0 /\ last_rank = 0
    /\ file_part = 0 /\ total_files = 0 /\ args_limit = 0

IdleAdjust ==
    /\ adj_time = 0 /\ adj_current = 0 /\ adj_result = 0 /\ adj_done = FALSE

IdleCall ==
    /\ call_fn = "none" /\ call_in = <<>> /\ call_out = <<>> /\ call_done = FALSE

InitRun ==
    /\ variant \in Variants
    /\ table \in Tables
    /\ pc = "START"
    /\ total_records = 0
    /\ processed = 0
    /\ batch_num = 0
    /\ last_cnpj = NULL
    /\ batches = <<>>
    /\ last_query = NoQuery
    /\ n_queries = 0
    /\ cursor_rows = <<>>
    /\ batch_data = <<>>
    /\ writer = FALSE

(* Runs that differ in limit, batch size and previous content of the file  *)
InitPaging ==
    /\ InitRun
    /\ filters \in {NoFilters, "uf" :> SP}
    /\ limit \in 0..MaxLimit
    /\ batch_size \in BatchSizes
    /\ output \in {NoFile, StaleFile}

(* Runs that differ in the filter object *)
InitFiltering ==
    /\ InitRun
    /\ filters \in FilterObjects
    /\ limit \in {1, 2}
    /\ batch_size = 1
    /\ output = NoFile

Init ==
    /\ InitPaging \/ InitFiltering
    /\ IdleCount
    /\ IdleAdjust
    /\ IdleCall

Last(s) == s[Len(s)]

(* CNPJProcessor.run: one query, one frame, one file.  On an empty result  *)
(* df.apply(..., axis=1) yields a frame, not a column; pandas versions     *)
(* differ on whether assigning it to df['ddd_telefone_1'] raises, so the   *)
(* run either writes a header-only file or fails before writing.           *)
run ==
    /\ pc = "START" /\ variant = "run"
    /\ LET q == build_query(limit, filters)
       IN  /\ last_query' = q
           /\ n_queries' = n_queries + 1
           /\ \E df_raw \in Execute(q, table) :
                LET df == process_data(df_raw, filters)
                IN  \/ /\ batches' = Append(batches, df)
                       /\ output' = save_to_csv(output, df)
                       /\ pc' = "DONE"
                    \/ /\ df_raw = <<>>
                       /\ UNCHANGED <<batches, output>>
                       /\ pc' = "FAILED"
    /\ UNCHANGED <<variant, table, filters, limit, batch_size, total_records,
                   processed, batch_num, last_cnpj, cursor_rows, batch_data, writer>>
    /\ UNCHANGED <<countVars, adjVars, callVars>>

(* CNPJProcessorOptimized.run_optimized up to the loop *)
run_optimized_start ==
    /\ pc = "START" /\ variant = "run_optimized"
    /\ LET total == Count(IF DOMAIN filters # {}
                          THEN apply_filters_optimized(filters) ELSE <<>>, table)
       IN  total_records' = IF limit > 0 THEN Min(total, limit) ELSE total
    /\ n_queries' = n_queries + 1
    /\ processed' = 0
    /\ batch_num' = 1
    /\ pc' = "RUNNING"
    /\ UNCHANGED <<variant, table, filters, limit, batch_size, last_cnpj, output,
                   batches, last_query, cursor_rows, batch_data, writer>>
    /\ UNCHANGED <<countVars, adjVars, callVars>>

(* one iteration of the loop of run_optimized *)
run_optimized_batch ==
    /\ pc = "RUNNING" /\ variant = "run_optimized"
    /\ processed < total_records
    /\ LET current_batch_size == next_batch_size(batch_size, total_records, processed)
           q == build_optimized_query(current_batch_size, processed, filters)
       IN  /\ last_query' = q
           /\ n_queries' = n_queries + 1
           /\ \E df_batch \in Execute(q, table) :
                IF df_batch = <<>>
                THEN /\ pc' = "DONE"
                     /\ UNCHANGED <<output, batches, processed, batch_num>>
                ELSE LET df_processed == process_batch(df_batch)
                     IN  /\ output' = save_to_csv_batch(output, df_processed, batch_num > 1)
                         /\ batches' = Append(batches, df_processed)
                         /\ processed' = processed + Len(df_processed)
                         /\ batch_num' = batch_num + 1
                         /\ pc' = "RUNNING"
    /\ UNCHANGED <<variant, table, filters, limit, batch_size, total_records,
                   last_cnpj, cursor_rows, batch_data, writer>>
    /\ UNCHANGED <<countVars, adjVars, callVars>>

(* the loop of run_optimized left only once processed exceeds the target *)
run_optimized_exit_late ==
    /\ pc = "RUNNING" /\ variant = "run_optimized"
    /\ processed > total_records
    /\ pc' = "DONE"
    /\ UNCHANGED <<variant, table, filters, limit, batch_size, total_records,
                   processed, batch_num, last_cnpj, output, batches, last_query,
                   n_queries, cursor_rows, batch_data, writer>>
    /\ UNCHANGED <<countVars, adjVars, callVars>>

(* the loop condition of run_optimized fails *)
run_optimized_exit ==
    /\ pc = "RUNNING" /\ variant = "run_optimized"
    /\ ~(processed < total_records)
    /\ pc' = "DONE"
    /\ UNCHANGED <<variant, table, filters, limit, batch_size, total_records,
                   processed, batch_num, last_cnpj, output, batches, last_query,
                   n_queries, cursor_rows, batch_data, writer>>
    /\ UNCHANGED <<countVars, adjVars, callVars>>

(* CNPJProcessorUltraOptimized.get_total_count_optimized *)
get_total_count_optimized(f, tbl, apply_limit) ==
    LET total == Count(IF DOMAIN f # {} THEN apply_filters_minimal(f) ELSE <<>>, tbl)
    IN  IF apply_limit THEN Min(total, max_limit) ELSE total

(* CNPJProcessorUltraOptimized.run_ultra_optimized up to the loop *)
run_ultra_optimized_start ==
    /\ pc = "START" /\ variant = "run_ultra_optimized"
    /\ LET total == get_total_count_optimized(filters, table, TRUE)
       IN  total_records' = IF limit > 0 THEN Min(total, limit) ELSE total
    /\ n_queries' = n_queries + 1
    /\ processed' = 0
    /\ batch_num' = 1
    /\ pc' = "RUNNING"
    /\ UNCHANGED <<variant, table, filters, limit, batch_size, last_cnpj, output,
                   batches, last_query, cursor_rows, batch_data, writer>>
    /\ UNCHANGED <<countVars, adjVars, callVars>>

(* one iteration of the loop of run_ultra_optimized *)
run_ultra_optimized_batch ==
    /\ pc = "RUNNING" /\ variant = "run_ultra_optimized"
    /\ processed < total_records
    /\ LET current_batch_size == next_batch_size(batch_size, total_records, processed)
           q == build_ultra_optimized_query(current_batch_size, processed, filters, NULL)
       IN  /\ last_query' = q
           /\ n_queries' = n_queries + 1
           /\ \E df_batch \in Execute(q, table) :
                IF df_batch = <<>>
                THEN /\ pc' = "DONE"
                     /\ UNCHANGED <<output, batches, processed, batch_num, batch_size>>
                ELSE LET df_processed == process_batch_ultra_optimized(df_batch)
                     IN  /\ \E socios_time \in SociosTimes :
                                batch_size' = socios_slowdown(socios_time, batch_size)
                         /\ output' = save_to_csv_ultra(output, df_processed, batch_num > 1)
                         /\ batches' = Append(batches, df_processed)
                         /\ processed' = processed + Len(df_processed)
                         /\ batch_num' = batch_num + 1
                         /\ pc' = "RUNNING"
    /\ UNCHANGED <<variant, table, filters, limit, total_records, last_cnpj,
                   cursor_rows, batch_data, writer>>
    /\ UNCHANGED <<countVars, adjVars, callVars>>

(* the loop condition of run_ultra_optimized fails *)
run_ultra_optimized_exit ==
    /\ pc = "RUNNING" /\ variant = "run_ultra_optimized"
    /\ ~(processed < total_records)
    /\ pc' = "DONE"
    /\ UNCHANGED <<variant, table, filters, limit, batch_size, total_records,
                   processed, batch_num, last_cnpj, output, batches, last_query,
                   n_queries, cursor_rows, batch_data, writer>>
    /\ UNCHANGED <<countVars, adjVars, callVars>>

(* CNPJProcessorUltraOptimized.run_ultra_optimized_with_offset up to the   *)
(* loop; the loop runs up to `limit`                                       *)
run_ultra_optimized_with_offset_start ==
    /\ pc = "START" /\ variant = "run_ultra_optimized_with_offset"
    /\ total_records' = limit
    /\ processed' = 0
    /\ batch_num' = 1
    /\ last_cnpj' = NULL
    /\ pc' = "RUNNING"
    /\ UNCHANGED <<variant, table, filters, limit, batch_size, output, batches,
                   last_query, n_queries, cursor_rows, batch_data, writer>>
    /\ UNCHANGED <<countVars, adjVars, callVars>>

(* one iteration of the loop of run_ultra_optimized_with_offset *)
run_ultra_optimized_with_offset_batch ==
    /\ pc = "RUNNING" /\ variant = "run_ultra_optimized_with_offset"
    /\ processed < limit
    /\ LET current_batch_size == next_batch_size(batch_size, limit, processed)
           q == build_ultra_optimized_query(current_batch_size, 0, filters, last_cnpj)
       IN  /\ last_query' = q
           /\ n_queries' = n_queries + 1
           /\ \E df_batch \in Execute(q, table) :
                IF df_batch = <<>>
                THEN /\ pc' = "DONE"
                     /\ UNCHANGED <<output, batches, processed, batch_num,
                                    batch_size, last_cnpj>>
                ELSE LET df_processed == process_batch_ultra_optimized(df_batch)
                     IN  /\ \E socios_time \in SociosTimes, batch_time \in BatchTimes :
                                /\ socios_time <= batch_time
                                /\ batch_size' =
                                      adjust_batch_size(batch_time,
                                          socios_slowdown(socios_time, batch_size))
                         /\ output' = save_to_csv_ultra(output, df_processed, batch_num > 1)
                         /\ last_cnpj' = IF df_processed # <<>>
                                        THEN Last(df_processed).cnpj ELSE last_cnpj
                         /\ batches' = Append(batches, df_processed)
                         /\ processed' = processed + Len(df_processed)
                         /\ batch_num' = batch_num + 1
                         /\ pc' = "RUNNING"
    /\ UNCHANGED <<variant, table, filters, limit, total_records, cursor_rows,
                   batch_data, writer>>
    /\ UNCHANGED <<countVars, adjVars, callVars>>

(* the loop condition of run_ultra_optimized_with_offset fails *)
run_ultra_optimized_with_offset_exit ==
    /\ pc = "RUNNING" /\ variant = "run_ultra_optimized_with_offset"
    /\ ~(processed < limit)
    /\ pc' = "DONE"
    /\ UNCHANGED <<variant, table, filters, limit, batch_size, total_records,
                   processed, batch_num, last_cnpj, output, batches, last_query,
                   n_queries, cursor_rows, batch_data, writer>>
    /\ UNCHANGED <<countVars, adjVars, callVars>>


(* CNPJProcessorStreaming.run_streaming up to the fetch loop: the query is *)
(* executed and the output file is opened with mode 'w'                    *)
run_streaming_start ==
    /\ pc = "START" /\ variant = "run_streaming"
    /\ LET q == build_simple_query(limit, filters)
       IN  /\ last_query' = q
           /\ n_queries' = n_queries + 1
           /\ cursor_rows' \in Execute(q, table)
    /\ processed' = 0
    /\ batch_data' = <<>>
    /\ output' = <<>>
    /\ writer' = FALSE
    /\ pc' = "RUNNING"
    /\ UNCHANGED <<variant, table, filters, limit, batch_size, total_records,
                   batch_num, last_cnpj, batches>>
    /\ UNCHANGED <<countVars, adjVars, callVars>>

(* a DictWriter that writes the header line with every batch *)
write_batch_header_each_time(file, has_writer, rows) ==
    file \o <<HeaderLine>> \o rows

(* the write of a batch in run_streaming: the DictWriter is created, and   *)
(* the header line written, when `writer is None`; then one line per row   *)
write_batch(file, has_writer, rows) ==
    (IF has_writer THEN file ELSE file \o <<HeaderLine>>) \o rows

(* one iteration of the fetch loop of run_streaming with a row to fetch *)
run_streaming_fetch ==
    /\ pc = "RUNNING" /\ variant = "run_streaming"
    /\ cursor_rows # <<>>
    /\ cursor_rows' = Tail(cursor_rows)
    /\ LET processed_row == process_row_streaming(Head(cursor_rows), processed + 1)
           filled == Append(batch_data, processed_row)
       IN  IF Len(filled) >= batch_size
           THEN /\ output' = write_batch(output, writer, filled)
                /\ writer' = TRUE
                /\ batches' = Append(batches, filled)
                /\ processed' = processed + Len(filled)
                /\ batch_data' = <<>>
           ELSE /\ batch_data' = filled
                /\ UNCHANGED <<output, writer, batches, processed>>
    /\ UNCHANGED <<variant, table, filters, limit, batch_size, pc, total_records,
                   batch_num, last_cnpj, last_query, n_queries>>
    /\ UNCHANGED <<countVars, adjVars, callVars>>

(* fetchone() returns nothing: the last partial batch is written *)
run_streaming_finish ==
    /\ pc = "RUNNING" /\ variant = "run_streaming"
    /\ cursor_rows = <<>>
    /\ IF batch_data # <<>>
       THEN /\ output' = write_batch(output, writer, batch_data)
            /\ writer' = TRUE
            /\ batches' = Append(batches, batch_data)
            /\ processed' = processed + Len(batch_data)
       ELSE UNCHANGED <<output, writer, batches, processed>>
    /\ pc' = "DONE"
    /\ UNCHANGED <<variant, table, filters, limit, batch_size, total_records,
                   batch_num, last_cnpj, last_query, n_queries, cursor_rows,
                   batch_data>>
    /\ UNCHANGED <<countVars, adjVars, callVars>>

Next ==
    \/ run
    \/ run_optimized_start
    \/ run_optimized_batch
    \/ run_optimized_exit
    \/ run_ultra_optimized_start
    \/ run_ultra_optimized_batch
    \/ run_ultra_optimized_exit
    \/ run_ultra_optimized_with_offset_start
    \/ run_ultra_optimized_with_offset_batch
    \/ run_ultra_optimized_with_offset_exit
    \/ run_streaming_start
    \/ run_streaming_fetch
    \/ run_streaming_finish

Spec == Init /\ [][Next]_vars


----------------------------------------------------------------------------
(* Counted runs.  To follow a run over a table of hundreds of thousands of *)
(* rows the table is given by its shape only: est_roots root identifiers   *)
(* that satisfy the filters, each with est_per establishments.  A frame is *)
(* represented by its number of rows and a row by its rank in the ordered  *)
(* result; the rows of one root identifier have consecutive ranks.  Every  *)
(* batch of one counted run takes the same time, adj_time.                 *)

max_records_per_file == 500000

CountVariants ==
    {"run_optimized", "run_ultra_optimized", "run_streaming", "main_ultra_optimized"}
CountRoots == {0, 120000, 260000}
CountPer == {1, 2}
CountLimits == {0, 1000, 200001, 600000}
CountBatchSizes == {10000, 50000}

Matches == est_roots * est_per

(* rank of the last row of the root identifier that holds the row of rank r *)
RootEnd(r) == ((r + est_per - 1) \div est_per) * est_per

(* number of rows the database returns for q; `after` is the rank of the   *)
(* row whose registry number is the cursor of q, if q has one              *)
CountExecute(q, after) ==
    LET skipped == IF q.where # <<>> THEN RootEnd(after) ELSE q.offset
        available == Max(0, Matches - skipped)
    IN  IF q.limit > 0 THEN Min(q.limit, available) ELSE available

CursorOf(rank) == IF rank = 0 THEN NULL ELSE <<"r">>

InitCount ==
    /\ variant \in CountVariants
    /\ est_roots \in CountRoots
    /\ est_per \in CountPer
    /\ args_limit \in CountLimits
    /\ limit = args_limit
    /\ batch_size \in CountBatchSizes
    /\ pc = "START"
    /\ table = <<>> /\ filters = NoFilters
    /\ total_records = 0 /\ processed = 0 /\ batch_num = 0 /\ last_cnpj = NULL
    /\ output = NoFile /\ batches = <<>> /\ last_query = NoQuery /\ n_queries = 0
    /\ cursor_rows = <<>> /\ batch_data = <<>> /\ writer = FALSE
    /\ written = 0 /\ last_rank = 0 /\ file_part = 0 /\ total_files = 0
    /\ adj_time \in BatchTimes
    /\ adj_current = 0 /\ adj_result = 0 /\ adj_done = FALSE
    /\ IdleCall

countFixed ==
    <<variant, table, filters, batch_data, cursor_rows, writer, output, batches,
      last_cnpj, est_roots, est_per, args_limit, adjVars, callVars>>

(* run_optimized up to the loop *)
count_run_optimized_start ==
    /\ pc = "START" /\ variant = "run_optimized"
    /\ total_records' = IF limit > 0 THEN Min(Matches, limit) ELSE Matches
    /\ processed' = 0 /\ batch_num' = 1
    /\ n_queries' = n_queries + 1
    /\ pc' = "RUNNING"
    /\ UNCHANGED <<countFixed, limit, batch_size, last_query, written, last_rank,
                   file_part, total_files>>

(* one iteration of the loop of run_optimized *)
count_run_optimized_batch ==
    /\ pc = "RUNNING" /\ variant = "run_optimized"
    /\ processed < total_records
    /\ LET current_batch_size == next_batch_size(batch_size, total_records, processed)
           q == build_optimized_query(current_batch_size, processed, filters)
           n == CountExecute(q, 0)
       IN  /\ last_query' = q
           /\ n_queries' = n_queries + 1
           /\ IF n = 0
              THEN /\ pc' = "DONE"
                   /\ UNCHANGED <<processed, written, batch_num>>
              ELSE /\ processed' = processed + n
                   /\ written' = written + n
                   /\ batch_num' = batch_num + 1
                   /\ pc' = "RUNNING"
    /\ UNCHANGED <<countFixed, limit, batch_size, total_records, last_rank,
                   file_part, total_files>>

(* run_ultra_optimized up to the loop *)
count_run_ultra_optimized_start ==
    /\ pc = "START" /\ variant = "run_ultra_optimized"
    /\ LET total == Min(Matches, max_limit)
       IN  total_records' = IF limit > 0 THEN Min(total, limit) ELSE total
    /\ processed' = 0 /\ batch_num' = 1
    /\ n_queries' = n_queries + 1
    /\ pc' = "RUNNING"
    /\ UNCHANGED <<countFixed, limit, batch_size, last_query, written, last_rank,
                   file_part, total_files>>

(* one iteration of the loop of run_ultra_optimized *)
count_run_ultra_optimized_batch ==
    /\ pc = "RUNNING" /\ variant = "run_ultra_optimized"
    /\ processed < total_records
    /\ LET current_batch_size == next_batch_size(batch_size, total_records, processed)
           q == build_ultra_optimized_query(current_batch_size, processed, filters, NULL)
           n == CountExecute(q, 0)
       IN  /\ last_query' = q
           /\ n_queries' = n_queries + 1
           /\ IF n = 0
              THEN /\ pc' = "DONE"
                   /\ UNCHANGED <<processed, written, batch_num, batch_size>>
              ELSE /\ \E socios_time \in SociosTimes :
                        batch_size' = socios_slowdown(socios_time, batch_size)
                   /\ processed' = processed + n
                   /\ written' = written + n
                   /\ batch_num' = batch_num + 1
                   /\ pc' = "RUNNING"
    /\ UNCHANGED <<countFixed, limit, total_records, last_rank, file_part, total_files>>

(* the loop condition of run_optimized or of run_ultra_optimized fails *)
count_run_exit ==
    /\ pc = "RUNNING" /\ variant \in {"run_optimized", "run_ultra_optimized"}
    /\ ~(processed < total_records)
    /\ pc' = "DONE"
    /\ UNCHANGED <<countFixed, limit, batch_size, total_records, processed, batch_num,
                   last_query, n_queries, written, last_rank, file_part, total_files>>

(* run_streaming up to the fetch loop; total_records holds the number of   *)
(* rows of the open cursor                                                 *)
count_run_streaming_start ==
    /\ pc = "START" /\ variant = "run_streaming"
    /\ LET q == build_simple_query(limit, filters)
       IN  /\ last_query' = q
           /\ total_records' = CountExecute(q, 0)
    /\ n_queries' = n_queries + 1
    /\ processed' = 0
    /\ pc' = "RUNNING"
    /\ UNCHANGED <<countFixed, limit, batch_size, batch_num, written, last_rank,
                   file_part, total_files>>

(* the iterations of the fetch loop of run_streaming up to the next write: *)
(* a full batch, or what is left of the cursor                             *)
count_run_streaming_flush ==
    /\ pc = "RUNNING" /\ variant = "run_streaming"
    /\ LET n == Min(batch_size, total_records - processed)
       IN  /\ processed' = processed + n
           /\ written' = written + n
           /\ pc' = IF n < batch_size THEN "DONE" ELSE "RUNNING"
    /\ UNCHANGED <<countFixed, limit, batch_size, total_records, batch_num,
                   last_query, n_queries, last_rank, file_part, total_files>>

(* scripts/main_ultra_optimized.py main(): count and number of file parts *)
main_ultra_optimized_start ==
    /\ pc = "START" /\ variant = "main_ultra_optimized"
    /\ LET total == Matches
           capped == IF args_limit > 0 THEN Min(total, args_limit) ELSE total
       IN  /\ total_records' = capped
           /\ total_files' = IF capped > max_records_per_file
                             THEN (capped + max_records_per_file - 1)
                                     \div max_records_per_file
                             ELSE 1
    /\ n_queries' = n_queries + 1
    /\ file_part' = 1
    /\ pc' = "PART"
    /\ UNCHANGED <<countFixed, limit, batch_size, processed, batch_num, last_query,
                   written, last_rank>>

(* main(): next file part, and run_ultra_optimized_with_offset up to its loop *)
main_ultra_optimized_part ==
    /\ pc = "PART" /\ variant = "main_ultra_optimized"
    /\ file_part <= total_files
    /\ LET start_offset == (file_part - 1) * max_records_per_file
       IN  limit' = Min(max_records_per_file, total_records - start_offset)
    /\ processed' = 0 /\ batch_num' = 1 /\ last_rank' = 0
    /\ pc' = "RUNNING"
    /\ UNCHANGED <<countFixed, batch_size, total_records, last_query, n_queries,
                   written, file_part, total_files>>

(* one iteration of the loop of run_ultra_optimized_with_offset *)
count_with_offset_batch ==
    /\ pc = "RUNNING" /\ variant = "main_ultra_optimized"
    /\ processed < limit
    /\ LET current_batch_size == next_batch_size(batch_size, limit, processed)
           q == build_ultra_optimized_query(current_batch_size, 0, filters,
                                            CursorOf(last_rank))
           n == CountExecute(q, last_rank)
       IN  /\ last_query' = q
           /\ n_queries' = n_queries + 1
           /\ IF n = 0
              THEN /\ pc' = "PART"
                   /\ file_part' = file_part + 1
                   /\ UNCHANGED <<processed, written, batch_num, batch_size, last_rank>>
              ELSE /\ \E socios_time \in SociosTimes :
                        /\ socios_time <= adj_time
                        /\ batch_size' =
                              adjust_batch_size(adj_time,
                                  socios_slowdown(socios_time, batch_size))
                   /\ last_rank' = RootEnd(last_rank) + n
                   /\ processed' = processed + n
                   /\ written' = written + n
                   /\ batch_num' = batch_num + 1
                   /\ pc' = "RUNNING"
                   /\ UNCHANGED file_part
    /\ UNCHANGED <<countFixed, limit, total_records, total_files>>

(* the loop condition of run_ultra_optimized_with_offset fails: back in main() *)
count_with_offset_exit ==
    /\ pc = "RUNNING" /\ variant = "main_ultra_optimized"
    /\ ~(processed < limit)
    /\ pc' = "PART"
    /\ file_part' = file_part + 1
    /\ UNCHANGED <<countFixed, limit, batch_size, total_records, processed, batch_num,
                   last_query, n_queries, written, last_rank, total_files>>

(* main(): all file parts are written *)
main_ultra_optimized_exit ==
    /\ pc = "PART" /\ variant = "main_ultra_optimized"
    /\ file_part > total_files
    /\ pc' = "DONE"
    /\ UNCHANGED <<countFixed, limit, batch_size, total_records, processed, batch_num,
                   last_query, n_queries, written, last_rank, file_part, total_files>>

NextCount ==
    \/ count_run_optimized_start
    \/ count_run_optimized_batch
    \/ count_run_ultra_optimized_start
    \/ count_run_ultra_optimized_batch
    \/ count_run_exit
    \/ count_run_streaming_start
    \/ count_run_streaming_flush
    \/ main_ultra_optimized_start
    \/ main_ultra_optimized_part
    \/ count_with_offset_batch
    \/ count_with_offset_exit
    \/ main_ultra_optimized_exit

SpecCount == InitCount /\ [][NextCount]_vars

----------------------------------------------------------------------------
(* adjust_batch_size on its own: any batch duration, any current size      *)
(* (--batch-size sets processor.batch_size to any value)                   *)

AdjSizes ==
    {1, 2, 3, 2500, 4999, 5000, 5001, 7500, 9999, 10000, 10001, 14999, 15000,
     15001, 20000, 50000}

InitAdjust ==
    /\ adj_time \in 0..MaxAdjTime
    /\ adj_current \in AdjSizes
    /\ adj_result = 0
    /\ adj_done = FALSE
    /\ variant = "adjust_batch_size"
    /\ table = <<>> /\ filters = NoFilters /\ limit = 0 /\ batch_size = adj_current
    /\ pc = "START"
    /\ total_records = 0 /\ processed = 0 /\ batch_num = 0 /\ last_cnpj = NULL
    /\ output = NoFile /\ batches = <<>> /\ last_query = NoQuery /\ n_queries = 0
    /\ cursor_rows = <<>> /\ batch_data = <<>> /\ writer = FALSE
    /\ IdleCount
    /\ IdleCall

(* self.batch_size = self.adjust_batch_size(batch_time, self.batch_size) *)
call_adjust_batch_size ==
    /\ ~adj_done
    /\ adj_result' = adjust_batch_size(adj_time, adj_current)
    /\ batch_size' = adj_result'
    /\ adj_done' = TRUE
    /\ UNCHANGED <<variant, table, filters, limit, pc, total_records, processed,
                   batch_num, last_cnpj, output, batches, last_query, n_queries,
                   cursor_rows, batch_data, writer, countVars, adj_time, adj_current,
                   callVars>>

NextAdjust == call_adjust_batch_size

SpecAdjust == InitAdjust /\ [][NextAdjust]_vars

----------------------------------------------------------------------------
(* Row functions called on their own: one call of one function, with the   *)
(* results of all the variants side by side                                *)

MaxPhoneLen == 10
MaxEmailLen == 6
MaxStatusCode == 9

(* the texts over an alphabet of at most n characters *)
RECURSIVE StringsUpTo(_, _)
StringsUpTo(alphabet, n) ==
    IF n = 0 THEN {<<>>}
    ELSE LET shorter == StringsUpTo(alphabet, n - 1)
         IN  shorter \cup { Append(t, c) : t \in shorter, c \in alphabet }

(* first phone pairs: the number is NULL or digits, the DDD is digits ('0' *)
(* is what the loader stores for a missing DDD)                            *)
PhoneInputs ==
    [ddd : {DDD11, <<"0">>},
     telefone : StringsUpTo({"9", "3"}, MaxPhoneLen) \cup {NULL}]

EmailInputs == StringsUpTo({"a", "@", "."}, MaxEmailLen) \cup {NULL}

StatusInputs ==
    { [int |-> n] : n \in 0..MaxStatusCode }
        \cup { [str |-> t] : t \in {"ATIVA", "INAPTA", "SUSPENSA", "2", ""} }

IdlePage ==
    /\ variant = "row_function"
    /\ table = <<>> /\ filters = NoFilters /\ limit = 0 /\ batch_size = 0
    /\ pc = "START"
    /\ total_records = 0 /\ processed = 0 /\ batch_num = 0 /\ last_cnpj = NULL
    /\ output = NoFile /\ batches = <<>> /\ last_query = NoQuery /\ n_queries = 0
    /\ cursor_rows = <<>> /\ batch_data = <<>> /\ writer = FALSE

InitCalls ==
    /\ IdlePage
    /\ IdleCount
    /\ IdleAdjust
    /\ \/ call_fn = "detect_celular" /\ call_in \in PhoneInputs
       \/ call_fn = "validate_email" /\ call_in \in EmailInputs
       \/ call_fn = "replace_situacao" /\ call_in \in StatusInputs
    /\ call_out = <<>>
    /\ call_done = FALSE

(* the telefone1_celular cell of the optimized, ultra and streaming rows *)
call_detect_celular ==
    /\ call_fn = "detect_celular" /\ ~call_done
    /\ call_out' = [optimized |-> detect_celular(call_in.telefone, call_in.ddd),
                    ultra |-> detect_celular_ultra(call_in.telefone, call_in.ddd),
                    streaming |-> celular_flag_streaming(call_in.telefone)]
    /\ call_done' = TRUE
    /\ UNCHANGED <<pageVars, countVars, adjVars, call_fn, call_in>>

(* the email cell of the rows of the four variants *)
call_validate_email ==
    /\ call_fn = "validate_email" /\ ~call_done
    /\ call_out' = [standard |-> is_valid_email(call_in),
                    optimized |-> validate_email(call_in),
                    ultra |-> validate_email_ultra(call_in),
                    streaming |-> email_flag_streaming(call_in)]
    /\ call_done' = TRUE
    /\ UNCHANGED <<pageVars, countVars, adjVars, call_fn, call_in>>

(* the status translation applied once and applied again to its result *)
call_replace_situacao ==
    /\ call_fn = "replace_situacao" /\ ~call_done
    /\ call_out' = [once |-> replace_situacao_cell(call_in),
                    twice |-> replace_situacao_cell(replace_situacao_cell(call_in))]
    /\ call_done' = TRUE
    /\ UNCHANGED <<pageVars, countVars, adjVars, call_fn, call_in>>

NextCalls ==
    \/ call_detect_celular
    \/ call_validate_email
    \/ call_replace_situacao

SpecCalls == InitCalls /\ [][NextCalls]_vars

----------------------------------------------------------------------------
(* One batch of a run with its partner lookup.  The distinct root          *)
(* identifiers of the batch are numbered 1..n in the order of the list;    *)
(* every statement sent to the database either answers or raises.          *)

(* numbers of distinct roots in a batch, around the sizes the lookup tests *)
RootCounts == {0, 1, 2, 499, 999, 1000, 1001, 1999, 2000, 2001, 2002, 2500, 3001}

(* cnpj_socios: the roots that have partner rows *)
has_partners(k) == k % 3 # 0

(* GROUP_CONCAT(CONCAT('ID: ', ...) SEPARATOR ' | ') of the partners of a root *)
socios_info(k) == <<"ID: ", k>>

(* if len(cnpj_batch) > 2000: batch_size = 500 else: batch_size = 1000 *)
socios_batch_size(n) == IF n > 2000 THEN 500 ELSE 1000

(* the batch loop has been entered by `caller`, which opened the           *)
(* connection (connect_database) before it                                 *)
BatchStart(fn, caller, n, c) ==
    /\ call_fn = fn
    /\ call_in = [n |-> n, cached |-> c, caller |-> caller]
    /\ call_out = [stage |-> "read_sql", read_failed |-> FALSE, i |-> 0,
                   batch_size |-> socios_batch_size(n), queries |-> <<>>,
                   saved |-> FALSE, exited |-> FALSE, closes |-> 0]
    /\ call_done = FALSE

(* the optimized variant keeps socios_cache between batches: the first     *)
(* root of a batch may be there already when it ended the batch before     *)
InitSocios ==
    /\ IdlePage
    /\ IdleCount
    /\ IdleAdjust
    /\ \E n \in RootCounts :
          \/ \E caller \in {"run_ultra_optimized", "main_ultra_optimized"} :
                BatchStart("process_batch_ultra_optimized", caller, n, 0)
          \/ \E c \in {0, 1} :
                c <= n /\ BatchStart("process_batch", "run_optimized", n, c)

sociosFixed == <<pageVars, countVars, adjVars, call_fn, call_in>>

(* df_batch = pd.read_sql(query, self.engine): an error leaves the loop    *)
(* (the except clause logs and raises again), an empty result breaks it    *)
batch_read_sql ==
    /\ ~call_done /\ call_out.stage = "read_sql"
    /\ \/ /\ call_out' = [call_out EXCEPT !.stage = "raised", !.read_failed = TRUE]
          /\ call_done' = TRUE
       \/ /\ call_in.n = 0
          /\ call_out' = [call_out EXCEPT !.stage = "empty"]
          /\ call_done' = TRUE
       \/ /\ call_in.n > 0
          /\ call_out' = [call_out EXCEPT !.stage = "socios"]
          /\ call_done' = FALSE
    /\ UNCHANGED sociosFixed

(* the size halved after an error, never below what the test allows *)
socios_batch_size_after_error(size) ==
    IF size > 100 THEN size \div 2 ELSE size

(* One pass of `for i in range(0, len(cnpj_batch), batch_size)` in         *)
(* get_socios_batch_direct: the range is built once with the first size,   *)
(* the slice cnpj_batch[i:i + batch_size] uses the current size; an error  *)
(* is logged, the size is halved and the loop goes on to the next i (the   *)
(* assignment `i -= batch_size` is overwritten by the for statement)       *)
get_socios_batch_direct ==
    /\ ~call_done /\ call_out.stage = "socios"
    /\ call_fn = "process_batch_ultra_optimized"
    /\ call_out.i < call_in.n
    /\ \E ok \in BOOLEAN :
          call_out' = [call_out EXCEPT
              !.queries = Append(@, [lo |-> call_out.i + 1,
                                     hi |-> Min(call_out.i + call_out.batch_size, call_in.n),
                                     size |-> call_out.batch_size,
                                     ok |-> ok]),
              !.batch_size = IF ok THEN @ ELSE socios_batch_size_after_error(@),
              !.i = @ + socios_batch_size(call_in.n)]
    /\ call_done' = FALSE
    /\ UNCHANGED sociosFixed

(* get_socios_data_optimized: one statement with every root that is not in *)
(* socios_cache; an error is not caught                                    *)
get_socios_data_optimized ==
    /\ ~call_done /\ call_out.stage = "socios"
    /\ call_fn = "process_batch"
    /\ IF call_in.cached < call_in.n
       THEN \E ok \in BOOLEAN :
               /\ call_out' = [call_out EXCEPT
                      !.queries = <<[lo |-> call_in.cached + 1, hi |-> call_in.n,
                                     size |-> call_in.n - call_in.cached, ok |-> ok]>>,
                      !.stage = IF ok THEN "save" ELSE "raised"]
               /\ call_done' = ~ok
       ELSE /\ call_out' = [call_out EXCEPT !.stage = "save"]
            /\ call_done' = FALSE
    /\ UNCHANGED sociosFixed

(* the lookup of the ultra variant returns its results once the range is   *)
(* exhausted, and the batch goes on to be saved                            *)
get_socios_batch_direct_return ==
    /\ ~call_done /\ call_out.stage = "socios"
    /\ call_fn = "process_batch_ultra_optimized"
    /\ call_out.i >= call_in.n
    /\ call_out' = [call_out EXCEPT !.stage = "save"]
    /\ call_done' = FALSE
    /\ UNCHANGED sociosFixed

(* save_to_csv_ultra / save_to_csv_batch: the batch is written *)
batch_save_to_csv ==
    /\ ~call_done /\ call_out.stage = "save"
    /\ call_out' = [call_out EXCEPT !.stage = "saved", !.saved = TRUE]
    /\ call_done' = TRUE
    /\ UNCHANGED sociosFixed

(* The run ends after the batch, normally or with the exception.           *)
(* run_optimized and run_ultra_optimized call close_database in a finally  *)
(* clause.  main() of main_ultra_optimized calls it as the last statement  *)
(* of its try block, after the loop over the file parts:                   *)
(* run_ultra_optimized_with_offset has no finally clause and the except    *)
(* clauses of main() return 1 without closing.                             *)
run_exit ==
    /\ call_done /\ ~call_out.exited
    /\ call_fn \in {"process_batch_ultra_optimized", "process_batch"}
    /\ call_out' = [call_out EXCEPT
           !.exited = TRUE,
           !.closes = IF call_in.caller = "main_ultra_optimized"
                         /\ call_out.stage = "raised"
                      THEN @ ELSE @ + 1]
    /\ call_done' = call_done
    /\ UNCHANGED sociosFixed

NextSocios ==
    \/ run_exit
    \/ batch_read_sql
    \/ get_socios_batch_direct
    \/ get_socios_batch_direct_return
    \/ get_socios_data_optimized
    \/ batch_save_to_csv

SpecSocios == InitSocios /\ [][NextSocios]_vars

(* the statements of the lookup whose IN list holds root k *)
QueriesOf(k) ==
    { q \in 1..Len(call_out.queries) :
        call_out.queries[q].lo <= k /\ k <= call_out.queries[q].hi }

(* batch_data['socios'] of the rows of root k: the entry of the returned   *)
(* dictionary, the empty cell when the root is not a key of it             *)
socios_field(k) ==
    IF /\ has_partners(k)
       /\ \/ k <= call_in.cached
          \/ \E q \in QueriesOf(k) : call_out.queries[q].ok
    THEN socios_info(k)
    ELSE <<>>

----------------------------------------------------------------------------
(* The load scripts (establishments, partners, tax regime): one run of one *)
(* script against a table that may hold the rows of an earlier load.       *)

MaxLines == 5

(* for file_idx in range(10): the ten source files of establishments and   *)
(* of partners; the tax-regime script reads one file                       *)
source_files(script) == IF script = "cnpj_simples" THEN 1 ELSE 10

(* the number of frames a script reads each file in *)
file_parts(script) ==
    CASE script = "cnpj_estabelecimentos" -> 3
      [] script = "cnpj_socios" -> 2
      [] OTHER -> 1

LoadScripts == {"cnpj_estabelecimentos", "cnpj_socios", "cnpj_simples"}

(* line `line` of source file `file`; each line of a tax-regime file is    *)
(* the record of a different root                                          *)
SourceLine(file, line) == [file |-> file, line |-> line, cnpj_part1 |-> line]

(* a row left in the table by a load of other source files *)
StaleRow == [file |-> 99, line |-> 1, cnpj_part1 |-> 1]

(* the lines first..last of a file, in order *)
Lines(file, first, last) ==
    [k \in 1..Max(0, last - first + 1) |-> SourceLine(file, first + k - 1)]

(* every line of the files 0..(nfiles - 1), file after file *)
RECURSIVE SourceRows(_, _)
SourceRows(nfiles, n) ==
    IF nfiles = 0 THEN <<>>
    ELSE SourceRows(nfiles - 1, n) \o Lines(nfiles - 1, 1, n)

(* what the table holds before the run: nothing, a row of an older source, *)
(* or the rows an earlier run loaded from the same files                   *)
OldRows(script, n, old) ==
    CASE old = "empty" -> <<>>
      [] old = "stale" -> <<StaleRow>>
      [] OTHER -> SourceRows(source_files(script), n)

InitLoad ==
    /\ IdlePage
    /\ IdleCount
    /\ IdleAdjust
    /\ call_fn \in LoadScripts
    /\ \E n \in 1..MaxLines, old \in {"empty", "stale", "same"} :
          /\ call_in = [lines |-> n, old |-> old]
          /\ call_out = [stage |-> "truncate", truncated |-> "pending",
                         file |-> 0, part |-> 1,
                         table |-> OldRows(call_fn, n, old)]
    /\ call_done = FALSE

(* try: cursor.execute("TRUNCATE TABLE ..."); connection.commit()          *)
(* except (ConnectionError, OSError, ValueError): print(...)               *)
(* The statement succeeds, raises an error of the three caught classes     *)
(* (the script prints it and goes on to load), or raises another error     *)
(* (the script ends after the finally clause).                             *)
truncate_table ==
    /\ ~call_done /\ call_out.stage = "truncate"
    /\ \/ /\ call_out' = [call_out EXCEPT !.stage = "load", !.truncated = "ok",
                                          !.table = <<>>]
          /\ call_done' = FALSE
       \/ /\ call_out' = [call_out EXCEPT !.stage = "load", !.truncated = "caught"]
          /\ call_done' = FALSE
       \/ /\ call_out' = [call_out EXCEPT !.stage = "aborted", !.truncated = "uncaught"]
          /\ call_done' = TRUE
    /\ UNCHANGED sociosFixed

(* a third read that skips part_size * 2 lines whatever the remainder *)
read_csv_part_skip_two_thirds(script, file, part, n) ==
    LET part_size == n \div 3
        remaining == n % 3
        first_third == part_size + (IF remaining > 0 THEN 1 ELSE 0)
        second_third == part_size + (IF remaining > 1 THEN 1 ELSE 0)
        metade == n \div 2
    IN  CASE script = "cnpj_estabelecimentos" /\ part = 1 ->
                Lines(file, 1, first_third)
          [] script = "cnpj_estabelecimentos" /\ part = 2 ->
                Lines(file, first_third + 1, first_third + second_third)
          [] script = "cnpj_estabelecimentos" /\ part = 3 ->
                Lines(file, part_size * 2 + 1, n)
          [] script = "cnpj_socios" /\ part = 1 -> Lines(file, 1, metade)
          [] script = "cnpj_socios" /\ part = 2 -> Lines(file, metade + 1, n)
          [] OTHER -> Lines(file, 1, n)

(* the lines pd.read_csv returns for frame `part` of a file of n lines:    *)
(* nrows and skiprows as the establishments script (thirds) and the        *)
(* partners script (halves) compute them                                   *)
read_csv_part(script, file, part, n) ==
    LET part_size == n \div 3
        remaining == n % 3
        first_third == part_size + (IF remaining > 0 THEN 1 ELSE 0)
        second_third == part_size + (IF remaining > 1 THEN 1 ELSE 0)
        metade == n \div 2
    IN  CASE script = "cnpj_estabelecimentos" /\ part = 1 ->
                Lines(file, 1, first_third)
          [] script = "cnpj_estabelecimentos" /\ part = 2 ->
                Lines(file, first_third + 1, first_third + second_third)
          [] script = "cnpj_estabelecimentos" /\ part = 3 ->
                Lines(file, part_size * 2 + (IF remaining > 0 THEN 1 ELSE 0)
                              + (IF remaining > 1 THEN 1 ELSE 0) + 1, n)
          [] script = "cnpj_socios" /\ part = 1 -> Lines(file, 1, metade)
          [] script = "cnpj_socios" /\ part = 2 -> Lines(file, metade + 1, n)
          [] OTHER -> Lines(file, 1, n)

(* df.drop_duplicates(subset=['cnpj_part1']): the first row of each root *)
drop_duplicates(rows) ==
    LET Keep(k) == \A j \in 1..(k - 1) : rows[j].cnpj_part1 # rows[k].cnpj_part1
        kept == { k \in 1..Len(rows) : Keep(k) }
        Rank(k) == Cardinality({ j \in kept : j <= k })
    IN  [i \in 1..Cardinality(kept) |->
            rows[CHOOSE k \in kept : Rank(k) = i]]

(* One frame of the establishments or partners script: read_csv, then      *)
(* insert_in_batches with to_sql(if_exists='append').  An error of the     *)
(* insert ends the script with the rows appended so far left in the table. *)
insert_in_batches ==
    /\ ~call_done /\ call_out.stage = "load"
    /\ call_fn \in {"cnpj_estabelecimentos", "cnpj_socios"}
    /\ LET df == read_csv_part(call_fn, call_out.file, call_out.part, call_in.lines)
           last_part == call_out.part = file_parts(call_fn)
           last_file == call_out.file = source_files(call_fn) - 1
       IN  \/ /\ call_out' = [call_out EXCEPT
                     !.table = @ \o df,
                     !.part = IF last_part THEN 1 ELSE @ + 1,
                     !.file = IF last_part THEN @ + 1 ELSE @,
                     !.stage = IF last_part /\ last_file THEN "completed" ELSE @]
              /\ call_done' = (last_part /\ last_file)
           \/ /\ call_out' = [call_out EXCEPT !.stage = "aborted"]
              /\ call_done' = TRUE
    /\ UNCHANGED sociosFixed

(* The tax-regime script: the one file read whole, duplicates of a root    *)
(* dropped, every batch appended inside one transaction (engine.begin()),  *)
(* which an error rolls back.                                              *)
insert_in_batches_simples ==
    /\ ~call_done /\ call_out.stage = "load"
    /\ call_fn = "cnpj_simples"
    /\ LET df == drop_duplicates(read_csv_part(call_fn, 0, 1, call_in.lines))
       IN  \/ call_out' = [call_out EXCEPT !.table = @ \o df, !.file = 1,
                                            !.stage = "completed"]
           \/ call_out' = [call_out EXCEPT !.stage = "aborted"]
    /\ call_done' = TRUE
    /\ UNCHANGED sociosFixed

NextLoad ==
    \/ truncate_table
    \/ insert_in_batches
    \/ insert_in_batches_simples

SpecLoad == InitLoad /\ [][NextLoad]_vars

(* how many rows of the table are the row r *)
CountIn(tbl, r) == Cardinality({ k \in 1..Len(tbl) : tbl[k] = r })

----------------------------------------------------------------------------
(* scripts/apply_indexes.py: apply_essential_indexes run once and then a   *)
(* second time against the same database.                                  *)

(* the eight entries of the list `indexes`, by position *)
essential_indexes == 1..8

(* What cursor.execute("CREATE INDEX ...") does: an index of that name on  *)
(* the table makes the database answer error 1061; otherwise the index is  *)
(* created; any statement may also fail with another OperationalError or   *)
(* another exception, and then nothing is created.                         *)
create_index_answers(present) ==
    (IF present THEN {"duplicate_1061"} ELSE {"created"})
        \cup {"operational_error", "exception"}

(* the value an answer would make a stricter create_index_safe return *)
create_index_safe_new_only(answer) == answer = "created"

(* IndexManager.create_index_safe: the value returned for an answer *)
create_index_safe(answer) ==
    CASE answer = "created" -> TRUE
      [] answer = "duplicate_1061" -> TRUE
      [] OTHER -> FALSE

InitIndex ==
    /\ IdlePage
    /\ IdleCount
    /\ IdleAdjust
    /\ call_fn = "apply_essential_indexes"
    /\ call_in \in {{}, {2}, {1, 2, 3}, essential_indexes}
    /\ call_out = [run |-> 1, k |-> 1, indexes |-> call_in, success_count |-> 0,
                   answer |-> "none", returned |-> FALSE, failed |-> FALSE,
                   first_run |-> {}, first_count |-> 0]
    /\ call_done = FALSE

(* one pass of `for idx in indexes`: create_index_safe, then the count *)
apply_essential_indexes_index ==
    /\ ~call_done /\ call_out.k \in essential_indexes
    /\ \E answer \in create_index_answers(call_out.k \in call_out.indexes) :
          call_out' = [call_out EXCEPT
              !.indexes = IF answer = "created" THEN @ \cup {call_out.k} ELSE @,
              !.answer = answer,
              !.returned = create_index_safe(answer),
              !.success_count = IF create_index_safe(answer) THEN @ + 1 ELSE @,
              !.failed = @ \/ answer \in {"operational_error", "exception"},
              !.k = @ + 1]
    /\ call_done' = FALSE
    /\ UNCHANGED sociosFixed

(* the first run is over (the result is logged, update_statistics and      *)
(* verify_indexes change no index); the script is started again            *)
apply_essential_indexes_again ==
    /\ ~call_done /\ call_out.k \notin essential_indexes /\ call_out.run = 1
    /\ call_out' = [call_out EXCEPT !.run = 2, !.k = 1, !.success_count = 0,
                                    !.answer = "none", !.returned = FALSE,
                                    !.failed = FALSE,
                                    !.first_run = call_out.indexes,
                                    !.first_count = call_out.success_count]
    /\ call_done' = FALSE
    /\ UNCHANGED sociosFixed

(* the second run is over *)
apply_essential_indexes_end ==
    /\ ~call_done /\ call_out.k \notin essential_indexes /\ call_out.run = 2
    /\ call_out' = call_out
    /\ call_done' = TRUE
    /\ UNCHANGED sociosFixed

NextIndex ==
    \/ apply_essential_indexes_index
    \/ apply_essential_indexes_again
    \/ apply_essential_indexes_end

SpecIndex == InitIndex /\ [][NextIndex]_vars

----------------------------------------------------------------------------
(* scripts/carregar_dados_completo.py: the four load scripts run in        *)
(* sequence.  The scripts are numbered in the order of the list `scripts`: *)
(* 1 cnpj_empresas.py, 2 cnpj_estabelecimentos.py, 3 cnpj_socios.py,       *)
(* 4 cnpj_simples.py.                                                      *)

scripts == <<1, 2, 3, 4>>

(* what subprocess.run of a load script ends in *)
ScriptOutcomes == {"exit_0", "exit_nonzero", "TimeoutExpired", "Exception"}

(* a stricter-looking variant that lets a script that ran out of time pass *)
executar_script_timeout_passes(outcome) == outcome \in {"exit_0", "TimeoutExpired"}

(* executar_script: True only for a return code of 0 *)
executar_script(outcome) == outcome = "exit_0"

(* verificar_processo_rodando: the name of the script is looked for in the *)
(* output of `ps aux`; when ps cannot be run the answer is False           *)
verificar_processo_rodando(script, ps, running) ==
    IF ps = "raises" THEN FALSE ELSE running = script

(* The environment of one invocation: asked for help or not, the script    *)
(* file that is missing (0: none), the load script of which a process is   *)
(* running (0: none), and whether `ps aux` can be run.                     *)
InitCarregar ==
    /\ IdlePage
    /\ IdleCount
    /\ IdleAdjust
    /\ call_fn = "carregar_dados_completo"
    /\ call_in \in [help : BOOLEAN, missing : 0..4, running : 0..4,
                    ps : {"lists", "raises"}]
    /\ call_out = [stage |-> "argv", started |-> <<>>, results |-> <<>>,
                   child |-> 0, sucessos |-> 0, falhas |-> 0, exit_status |-> -1]
    /\ call_done = FALSE

(* python carregar_dados_completo.py --help: mostrar_ajuda, and the        *)
(* interpreter ends with status 0                                          *)
mostrar_ajuda ==
    /\ ~call_done /\ call_out.stage = "argv" /\ call_in.help
    /\ call_out' = [call_out EXCEPT !.stage = "exit", !.exit_status = 0]
    /\ call_done' = TRUE
    /\ UNCHANGED sociosFixed

(* main() up to the loop: return 1 when a script file is missing or a load *)
(* script is reported as running                                           *)
main_verificar ==
    /\ ~call_done /\ call_out.stage = "argv" /\ ~call_in.help
    /\ IF \/ \E k \in 1..Len(scripts) : call_in.missing = scripts[k]
          \/ \E k \in 1..Len(scripts) :
                verificar_processo_rodando(scripts[k], call_in.ps, call_in.running)
       THEN /\ call_out' = [call_out EXCEPT !.stage = "exit", !.exit_status = 1]
            /\ call_done' = TRUE
       ELSE /\ call_out' = [call_out EXCEPT !.stage = "loop"]
            /\ call_done' = FALSE
    /\ UNCHANGED sociosFixed

(* the loop reaches the next script: subprocess.run starts it *)
executar_script_start ==
    /\ ~call_done /\ call_out.stage = "loop" /\ call_out.child = 0
    /\ Len(call_out.started) < Len(scripts)
    /\ LET next == scripts[Len(call_out.started) + 1]
       IN  call_out' = [call_out EXCEPT !.started = Append(@, next), !.child = next]
    /\ call_done' = FALSE
    /\ UNCHANGED sociosFixed

(* subprocess.run returns or raises; a failure breaks the loop *)
executar_script_end ==
    /\ ~call_done /\ call_out.stage = "loop" /\ call_out.child # 0
    /\ \E outcome \in ScriptOutcomes :
          call_out' = [call_out EXCEPT
              !.results = Append(@, outcome),
              !.child = 0,
              !.sucessos = IF executar_script(outcome) THEN @ + 1 ELSE @,
              !.falhas = IF executar_script(outcome) THEN @ ELSE @ + 1,
              !.stage = IF executar_script(outcome) THEN @ ELSE "resumo"]
    /\ call_done' = FALSE
    /\ UNCHANGED sociosFixed

(* the summary: return 0 if falhas == 0 else 1, which sys.exit passes on *)
main_resumo ==
    /\ ~call_done /\ call_out.child = 0
    /\ \/ call_out.stage = "resumo"
       \/ call_out.stage = "loop" /\ Len(call_out.started) = Len(scripts)
    /\ call_out' = [call_out EXCEPT
           !.stage = "exit",
           !.exit_status = IF call_out.falhas = 0 THEN 0 ELSE 1]
    /\ call_done' = TRUE
    /\ UNCHANGED sociosFixed

NextCarregar ==
    \/ mostrar_ajuda
    \/ main_verificar
    \/ executar_script_start
    \/ executar_script_end
    \/ main_resumo

SpecCarregar == InitCarregar /\ [][NextCarregar]_vars

(* the scripts started so far are the first ones of the list, in order,    *)
(* each but the last one ended with status 0, and none is started while    *)
(* another runs                                                            *)
StartedInSequence ==
    /\ Len(call_out.started) <= Len(scripts)
    /\ \A k \in 1..Len(call_out.started) : call_out.started[k] = scripts[k]
    /\ \A k \in 2..Len(call_out.started) :
          k - 1 <= Len(call_out.results) /\ call_out.results[k - 1] = "exit_0"
    /\ Len(call_out.results) \in {Len(call_out.started), Len(call_out.started) - 1}
    /\ call_out.child # 0 <=> Len(call_out.results) < Len(call_out.started)

AllFourSucceeded ==
    /\ Len(call_out.results) = Len(scripts)
    /\ \A k \in 1..Len(scripts) : call_out.results[k] = "exit_0"

----------------------------------------------------------------------------
(* Properties *)

(* A sequential program always takes its next step; the runs are those     *)
(* that differ in limit, batch size and previous content of the file       *)
InitFair ==
    /\ InitPaging
    /\ IdleCount
    /\ IdleAdjust
    /\ IdleCall

FairSpec == InitFair /\ [][Next]_vars /\ WF_vars(Next)

RECURSIVE Flatten(_)
Flatten(ss) == IF ss = <<>> THEN <<>> ELSE Head(ss) \o Flatten(Tail(ss))

(* the data rows of a CSV file *)
DataRows(file) == SelectSeq(file, LAMBDA l : "cnpj" \in DOMAIN l)

Keys(rows) == [i \in 1..Len(rows) |-> rows[i].cnpj]

(* the establishment a written row was made from *)
SourceRow(r) ==
    table[CHOOSE i \in 1..Len(table) :
              table[i].cnpj_part1 \o table[i].cnpj_part2 \o table[i].cnpj_part3 = r.cnpj]

PagerVariants ==
    {"run_optimized", "run_ultra_optimized", "run_ultra_optimized_with_offset"}

(* C1: a finished cursor-paged run (run_ultra_optimized_with_offset) with  *)
(* a positive limit has written, batch after batch, exactly the rows, in   *)
(* the order, of one unpaginated execution of the same filtered query      *)
(* limited to the target: no composite key skipped, none written twice.    *)
C1_CursorPagesEqualUnpaginated ==
    (variant = "run_ultra_optimized_with_offset" /\ pc = "DONE" /\ limit > 0)
    => Keys(Flatten(batches)) \in
          { Keys(process_batch_ultra_optimized(r)) :
              r \in Execute(build_ultra_optimized_query(limit, 0, filters, NULL), table) }

(* C2: whatever the requested limit and the entry point, the rows written  *)
(* never exceed 200,000.                                                   *)
C2_GlobalCap == written <= 200000

(* the rows of the table that satisfy every requested filter, the          *)
(* tipo_telefone post-filter included *)
MatchingAll == process_data(Matching(apply_filters(filters), table), filters)

(* C3: a standard run with limit L > 0 over a table with M rows matching   *)
(* all requested filters (tipo_telefone included) writes exactly           *)
(* min(L, M) data rows.                                                    *)
C3_ExactRowCount ==
    (variant = "run" /\ pc = "DONE" /\ limit > 0)
    => Len(DataRows(output)) = Min(limit, Len(MatchingAll))

(* the status codes a written status cell stands for *)
CsvStatusCodes(cell) ==
    { c \in 0..9 :
        \/ cell = ToString(c)
        \/ c = 2 /\ cell = "ATIVA"
        \/ c = 4 /\ cell = "INAPTA"
        \/ c = 8 /\ cell = "SUSPENSA" }

StatusBucket(name) ==
    CASE name = "ativos" -> {2}
      [] name = "inaptos" -> {4}
      [] name = "inativos" -> {1, 3, 8}

KnownBuckets == {"ativos", "inaptos", "inativos"}

(* C4: every data row written by a run, in every batch, has the requested  *)
(* uf, the requested codigo_municipio and a status code of the requested   *)
(* status bucket.                                                          *)
C4_WrittenRowsSatisfyFilters ==
    \A i \in 1..Len(DataRows(output)) :
        LET r == DataRows(output)[i]
        IN  /\ Has(filters, "uf") => r.uf = filters["uf"]
            /\ Has(filters, "codigo_municipio")
                  => r.codigo_municipio = filters["codigo_municipio"]
            /\ (Has(filters, "situacao_cadastral")
                  /\ filters["situacao_cadastral"] \in KnownBuckets)
                  => /\ CsvStatusCodes(r.situacao_cadastral) # {}
                     /\ CsvStatusCodes(r.situacao_cadastral)
                           \subseteq StatusBucket(filters["situacao_cadastral"])

(* a cursor-paged run under a uf filter wrote two batches from a table     *)
(* that also holds rows of another uf *)
C4_Witness ==
    /\ variant = "run_ultra_optimized_with_offset"
    /\ Has(filters, "uf")
    /\ Len(batches) >= 2
    /\ Len(DataRows(output)) >= 2
    /\ \E i \in 1..Len(table) : table[i].uf # filters["uf"]

C7_HeaderOnceThenAppend ==
    batches # <<>> => output = <<HeaderLine>> \o Flatten(batches)

(* three non-empty batches have been written *)
C7_Witness ==
    /\ variant \in PagerVariants
    /\ Len(batches) >= 3
    /\ \A i \in 1..Len(batches) : batches[i] # <<>>
    /\ Len(output) >= 4

StatusConds(where) ==
    LET cs == SelectSeq(where, LAMBDA c : c.col = "situacao_cadastral")
    IN  [i \in 1..Len(cs) |-> <<cs[i].op, cs[i].val>>]

ExpectedStatusConds(f) ==
    IF Has(f, "situacao_cadastral") /\ f["situacao_cadastral"] \in KnownBuckets
    THEN <<<<"IN", StatusBucket(f["situacao_cadastral"])>>>>
    ELSE <<>>

WithoutStatus(f) == [k \in DOMAIN f \ {"situacao_cadastral"} |-> f[k]]

(* C9: ativos selects status 2, inaptos status 4, inativos the statuses    *)
(* 1, 3 and 8, three disjoint sets; any other value adds no condition, so  *)
(* that the query selects what it selects without the key; the four        *)
(* compilers agree, and so does the query a run has issued.                *)
C9_StatusBuckets ==
    /\ \A a, b \in KnownBuckets : a # b => StatusBucket(a) \cap StatusBucket(b) = {}
    /\ StatusConds(apply_filters(filters)) = ExpectedStatusConds(filters)
    /\ StatusConds(apply_filters_optimized(filters)) = ExpectedStatusConds(filters)
    /\ StatusConds(apply_filters_minimal(filters)) = ExpectedStatusConds(filters)
    /\ StatusConds(build_simple_query_where(filters)) = ExpectedStatusConds(filters)
    /\ last_query # NoQuery
          => StatusConds(last_query.where) = ExpectedStatusConds(filters)
    /\ (Has(filters, "situacao_cadastral")
          /\ filters["situacao_cadastral"] \notin KnownBuckets)
          => /\ Matching(apply_filters(filters), table)
                   = Matching(apply_filters(WithoutStatus(filters)), table)
             /\ Matching(apply_filters_optimized(filters), table)
                   = Matching(apply_filters_optimized(WithoutStatus(filters)), table)
             /\ Matching(apply_filters_minimal(filters), table)
                   = Matching(apply_filters_minimal(WithoutStatus(filters)), table)
             /\ Matching(build_simple_query_where(filters), table)
                   = Matching(build_simple_query_where(WithoutStatus(filters)), table)

(* a streaming run asked for the inactive bucket has written a row of a    *)
(* table that holds a suspended (8) establishment *)
C9_Witness ==
    /\ variant = "run_streaming"
    /\ pc = "DONE"
    /\ Has(filters, "situacao_cadastral")
    /\ filters["situacao_cadastral"] = "inativos"
    /\ \E i \in 1..Len(table) : table[i].situacao_cadastral = 8
    /\ Len(DataRows(output)) >= 1

(* C10: with com_email / com_telefone requested true every written row's   *)
(* establishment has a non-null, non-empty email / first phone; requested  *)
(* false, a null or empty one; in every variant.                           *)
C10_ContactFlagsRespected ==
    \A i \in 1..Len(DataRows(output)) :
        LET e == SourceRow(DataRows(output)[i])
        IN  /\ Has(filters, "com_email")
                  => (filters["com_email"] <=> ~IsEmpty(e.correio_eletronico))
            /\ Has(filters, "com_telefone")
                  => (filters["com_telefone"] <=> ~IsEmpty(e.telefone1))

(* the first phone of a written row is classified mobile: the flag 1 of    *)
(* the standard and streaming variants, the formatted number of the        *)
(* optimized and ultra variants *)
WrittenAsMobile(r) ==
    IF variant \in {"run", "run_streaming"}
    THEN r.telefone1_celular = 1
    ELSE r.telefone1_celular # <<>>

WithoutKey(f, key) == [k \in DOMAIN f \ {key} |-> f[k]]

(* C11: when tipo_telefone is requested, in every variant, every written   *)
(* row has a first phone classified not-mobile for 'fixo' and mobile for   *)
(* 'celular'; the key adds no condition to the query.                      *)
C11_PhoneTypePostFilter ==
    Has(filters, "tipo_telefone")
    => /\ Len(apply_filters(filters))
              = Len(apply_filters(WithoutKey(filters, "tipo_telefone")))
       /\ Matching(apply_filters(filters), table)
              = Matching(apply_filters(WithoutKey(filters, "tipo_telefone")), table)
       /\ \A i \in 1..Len(DataRows(output)) :
              LET r == DataRows(output)[i]
              IN  /\ filters["tipo_telefone"] = "fixo" => ~WrittenAsMobile(r)
                  /\ filters["tipo_telefone"] = "celular" => WrittenAsMobile(r)

(* the label a reference table gives for a code, empty when it has none *)
RefLabel(ref, code) == IF code \in DOMAIN ref THEN ref[code] ELSE ""

(* C12: every written row whose stored country code is 0 carries code 105  *)
(* and the label the reference table gives for 105, in every variant.      *)
C12_HomeCountryDefault ==
    \A i \in 1..Len(DataRows(output)) :
        LET r == DataRows(output)[i]
        IN  SourceRow(r).codigo_pais = 0
            => /\ r.codigo_pais = 105
               /\ r.pais = RefLabel(cnpj_paises, <<"1", "0", "5">>)

(* C13: in every written row the industry, municipality and country       *)
(* labels are the entries of the reference tables for the row's own        *)
(* industry, municipality and country code, and empty when the reference   *)
(* table has no entry for the code.                                        *)
C13_LabelsByOwnCode ==
    \A i \in 1..Len(DataRows(output)) :
        LET r == DataRows(output)[i]
        IN  /\ r.cnae_fiscal = RefLabel(cnpj_cnaes, SourceRow(r).cnae)
            /\ r.municipio = RefLabel(cnpj_municipios, IntStr(r.codigo_municipio))
            /\ r.pais = RefLabel(cnpj_paises, IntStr(r.codigo_pais))

(* the first phone is a 9-digit number starting with 9 *)
NineDigitsFromNine(telefone) ==
    /\ telefone # NULL
    /\ Len(telefone) = 9
    /\ \A k \in 1..9 : telefone[k] \in {"0", "1", "2", "3", "4", "5", "6", "7", "8", "9"}
    /\ telefone[1] = "9"

WellFormedEmail(e) ==
    /\ e # NULL
    /\ \E i, j \in 1..Len(e) :
          /\ 1 < i /\ i + 1 < j /\ j + 2 <= Len(e)
          /\ e[i] = "@" /\ e[j] = "."
          /\ \A k \in 1..(i - 1) : e[k] \in LocalChars
          /\ \A k \in (i + 1)..(j - 1) : e[k] \in DomainChars
          /\ \A k \in (j + 1)..Len(e) : e[k] \in Letters

(* C15: every variant accepts an email exactly when it has the form        *)
(* local@domain.tld with a TLD of 2 letters or more; an email that is not  *)
(* accepted is output as the empty text (flag 0).                          *)
C15_EmailValidation ==
    (call_fn = "validate_email" /\ call_done)
    => IF WellFormedEmail(call_in)
       THEN /\ call_out.standard = 1
            /\ call_out.optimized = call_in
            /\ call_out.ultra = call_in
            /\ call_out.streaming = 1
       ELSE /\ call_out.standard = 0
            /\ call_out.optimized = <<>>
            /\ call_out.ultra = <<>>
            /\ call_out.streaming = 0

(* C16: the status translation turns 2 into 'ATIVA', 4 into 'INAPTA' and 8 *)
(* into 'SUSPENSA', returns every other value unchanged, and applied to    *)
(* its own result changes nothing.                                         *)
C16_StatusLabels ==
    (call_fn = "replace_situacao" /\ call_done)
    => /\ (IsIntCell(call_in) /\ call_in.int = 2) => call_out.once = [str |-> "ATIVA"]
       /\ (IsIntCell(call_in) /\ call_in.int = 4) => call_out.once = [str |-> "INAPTA"]
       /\ (IsIntCell(call_in) /\ call_in.int = 8) => call_out.once = [str |-> "SUSPENSA"]
       /\ (IsIntCell(call_in) /\ call_in.int \notin {2, 4, 8})
             => (IsIntCell(call_out.once) /\ call_out.once.int = call_in.int)
       /\ ~IsIntCell(call_in)
             => (~IsIntCell(call_out.once) /\ call_out.once.str = call_in.str)
       /\ IsIntCell(call_out.twice) = IsIntCell(call_out.once)
       /\ IsIntCell(call_out.once) => call_out.twice.int = call_out.once.int
       /\ ~IsIntCell(call_out.once) => call_out.twice.str = call_out.once.str

(* code 8 has been translated, and the translation applied again *)
C16_Witness ==
    /\ call_fn = "replace_situacao" /\ call_done
    /\ IsIntCell(call_in) /\ call_in.int = 8
    /\ ~IsIntCell(call_out.twice) /\ call_out.twice.str = "SUSPENSA"

(* C17: when a batch is written, every statement of its partner lookup     *)
(* held at most 1000 roots, every distinct root of the batch was in        *)
(* exactly one statement, and the socios field of a root is the            *)
(* concatenation of its partners, empty for a root without partners.       *)
C17_PartnerLookupCoverage ==
    (call_fn \in {"process_batch_ultra_optimized", "process_batch"} /\ call_out.saved)
    => /\ \A q \in 1..Len(call_out.queries) :
             call_out.queries[q].hi - call_out.queries[q].lo + 1 <= 1000
       /\ \A k \in (call_in.cached + 1)..call_in.n : Cardinality(QueriesOf(k)) = 1
       /\ \A k \in 1..call_in.n :
             socios_field(k) = IF has_partners(k) THEN socios_info(k) ELSE <<>>

(* C18: a database error, in the batch query or in the partner lookup,     *)
(* ends the run: nothing is sent after it, the batch is not written, and   *)
(* no statement is sent a second time.                                     *)
C18_ErrorsAreFatal ==
    (call_fn \in {"process_batch_ultra_optimized", "process_batch"})
    => /\ call_out.read_failed => (call_out.stage = "raised" /\ ~call_out.saved)
       /\ \A q \in 1..Len(call_out.queries) :
             ~call_out.queries[q].ok
                => /\ q = Len(call_out.queries)
                   /\ call_out.stage = "raised"
                   /\ ~call_out.saved
       /\ \A q1, q2 \in 1..Len(call_out.queries) :
             call_out.queries[q1].lo = call_out.queries[q2].lo => q1 = q2

(* C19: every query built by build_ultra_optimized_query is ordered by the *)
(* columns get_optimized_order_by gives for the filters of the run: state  *)
(* first with uf (then status, start date descending, root when            *)
(* situacao_cadastral is present too), industry code first with            *)
(* cnae_codes, municipality code first with codigo_municipio, start date   *)
(* descending otherwise, uf before cnae_codes before codigo_municipio.     *)
C19_OrderFollowsFilters ==
    (variant \in {"run_ultra_optimized", "run_ultra_optimized_with_offset"}
        /\ last_query # NoQuery)
    => order_by_columns(last_query.order) = get_optimized_order_by(filters)

(* C20: after a completed load run the table holds every line of the       *)
(* current source files once and no other row, whatever it held before;    *)
(* and a run whose truncation did not succeed has inserted no row: the     *)
(* table is what it was before the run.                                    *)
C20_TruncateThenReload ==
    (call_fn \in LoadScripts)
    => LET source == SourceRows(source_files(call_fn), call_in.lines)
           before == OldRows(call_fn, call_in.lines, call_in.old)
       IN  /\ call_out.stage = "completed"
                => /\ Len(call_out.table) = Len(source)
                   /\ \A k \in 1..Len(source) : CountIn(call_out.table, source[k]) = 1
           /\ call_out.truncated \in {"caught", "uncaught"}
                => call_out.table = before

C22_PartsAtOffsets ==
    (variant = "main_ultra_optimized" /\ pc = "RUNNING" /\ processed > 0)
    => /\ processed <= max_records_per_file
       /\ last_rank > (file_part - 1) * max_records_per_file
       /\ last_rank - processed >= (file_part - 1) * max_records_per_file

C24_OffsetPagesDisjoint ==
    (variant = "run_ultra_optimized")
    => LET keys == Keys(Flatten(batches))
       IN  \A i, j \in 1..Len(keys) : keys[i] = keys[j] => i = j

(* C25: when a run has ended, the id column of the data rows of the output *)
(* file reads 1, 2, ..., N from the first row to the last, in every        *)
(* variant and for every batch size                                        *)
C25_IdsSequential ==
    (pc = "DONE" /\ variant \in Variants)
    => LET rows == DataRows(output)
       IN  \A i \in 1..Len(rows) : rows[i].id = i

(* C26: once an adaptive run (run_ultra_optimized,                         *)
(* run_ultra_optimized_with_offset) has processed a batch, the batch size  *)
(* of the processor lies between min_batch_size and max_batch_size         *)
C26_BatchSizeWithinBounds ==
    (variant \in {"run_ultra_optimized", "run_ultra_optimized_with_offset"}
        /\ processed > 0)
    => (min_batch_size <= batch_size /\ batch_size <= max_batch_size)

(* C27: when get_socios_batch_direct has returned, every sub-group whose   *)
(* query failed with a size above 100 was queried again (a later query     *)
(* starts at the same key, with a smaller size), and every root of the     *)
(* input was in at least one query, answered or not.                       *)
C27_FailedGroupQueriedAgain ==
    (call_fn = "process_batch_ultra_optimized" /\ call_out.stage \in {"save", "saved"})
    => /\ \A q \in 1..Len(call_out.queries) :
             (~call_out.queries[q].ok /\ call_out.queries[q].size > 100)
                => \E q2 \in (q + 1)..Len(call_out.queries) :
                      /\ call_out.queries[q2].lo = call_out.queries[q].lo
                      /\ call_out.queries[q2].size < call_out.queries[q].size
       /\ \A k \in 1..call_in.n : QueriesOf(k) # {}

(* C28: when a processing run has ended, normally, on an empty result or   *)
(* through an exception raised in a batch, its database connection has     *)
(* been closed, once.                                                      *)
C28_ConnectionClosedOnExit ==
    (call_fn \in {"process_batch_ultra_optimized", "process_batch"} /\ call_out.exited)
    => call_out.closes = 1

(* the composite keys of rows as the cursor returns them *)
FetchKeys(rows) ==
    [i \in 1..Len(rows) |->
        PyStr(rows[i].cnpj_part1) \o PyStr(rows[i].cnpj_part2) \o PyStr(rows[i].cnpj_part3)]

(* C29: run_streaming writes every row fetched from the cursor once and in *)
(* fetch order: the rows written, the rows held in batch_data and the rows *)
(* not yet fetched are, in this order, the result of the query; a batch is *)
(* flushed as soon as it is full; the file holds the header line once,     *)
(* before the first data row, and nothing when no row was written; the     *)
(* processed count is the number of data rows written; when the run has    *)
(* ended every row of the result is in the file.                           *)
C29_StreamingWritesEveryRowOnce ==
    (variant = "run_streaming" /\ pc \in {"RUNNING", "DONE"})
    => LET rows == DataRows(output)
           held == IF pc = "DONE" THEN <<>> ELSE batch_data
       IN  /\ \E r \in Execute(last_query, table) :
                 FetchKeys(r) = Keys(rows) \o Keys(held) \o FetchKeys(cursor_rows)
           /\ Len(held) < batch_size
           /\ output = IF rows = <<>> THEN <<>> ELSE <<HeaderLine>> \o rows
           /\ processed = Len(rows)
           /\ pc = "DONE" => cursor_rows = <<>>

(* a streaming run of three rows with batch size 2 has ended: one full     *)
(* batch was flushed in the loop and the last row after it                 *)
C29_Witness ==
    /\ variant = "run_streaming" /\ pc = "DONE" /\ batch_size = 2
    /\ Len(batches) = 2 /\ Len(batches[1]) = 2 /\ Len(batches[2]) = 1
    /\ Len(output) = 4 /\ processed = 3

(* C30: the three reads of the establishments script and the two reads of  *)
(* the partners script cover every line of a file of any line count once:  *)
(* after a truncation the rows appended so far are the lines of the source *)
(* files from the first one on, in file order, with none left out and none *)
(* repeated; when the first read of a file is next, the files before it    *)
(* are in the table whole; when the script has completed, every line of    *)
(* every file is.                                                          *)
C30_PartsCoverEveryLineOnce ==
    (/\ call_fn \in {"cnpj_estabelecimentos", "cnpj_socios"}
     /\ call_out.truncated = "ok"
     /\ call_out.stage \in {"load", "completed"})
    => LET n == call_in.lines
           source == SourceRows(source_files(call_fn), n)
           loaded == call_out.table
       IN  /\ Len(loaded) <= Len(source)
           /\ loaded = SubSeq(source, 1, Len(loaded))
           /\ call_out.part = 1 => Len(loaded) = call_out.file * n
           /\ call_out.stage = "completed" => loaded = source

(* the establishments script has read files of five lines (two, two and    *)
(* one line per read) to the end                                           *)
C30_Witness ==
    /\ call_fn = "cnpj_estabelecimentos"
    /\ call_in.lines = 5
    /\ call_out.truncated = "ok"
    /\ call_out.stage = "completed"
    /\ Len(call_out.table) = 5 * source_files(call_fn)
    /\ Len(read_csv_part(call_fn, 0, 3, 5)) = 1

====
